---- MODULE Spec2Model ----
(***************************************************************************)
(* One login attempt of the Playwright authentication service:             *)
(* main.login creates a strategy, acquires a page, runs the strategy's     *)
(* authenticate coroutine (one action per awaited step), releases the page *)
(* and builds the LoginResponse.                                           *)
(*                                                                         *)
(* The page, the external services and the code of subclasses that the    *)
(* repository leaves abstract are the environment: every outcome they can  *)
(* produce (a value, or a raised error) is chosen with \E at the step that *)
(* observes it.                                                            *)
(***************************************************************************)
EXTENDS Integers, Sequences, FiniteSets, TLC

VARIABLES
  req,        \* the LoginRequest (models.py:17-56), never mutated
  strategy,   \* the concrete strategy class serving the attempt
  pc,         \* position of main.login / authenticate / login
  page,       \* the page handle and what the page shows
  trace,      \* the strategy methods invoked so far, in order
  raised,     \* the methods that raised an error during the attempt
  cookies,    \* the local variable cookies of authenticate
  authRes,    \* what authenticate handed to its caller
  response,   \* the LoginResponse of main.login
  sessions,   \* the session store
  probes,     \* the challenge checks of the attempt, in order
  loop,       \* a polling loop of a solver or handler
  chain,      \* a solver or handler chain under construction
  bm,         \* one BrowserManager.get_page call
  exch,       \* one token exchange and the token set it yields
  mgr,        \* the module-level BrowserManager and the logins sharing it
  otp,        \* one OTP phase: a handler chain at work on a page
  check,      \* one evaluation of is_success or extract_cookies
  persist,    \* one persistent browser session: created, then closed
  store,      \* a StorageAdapter, its backing store and the clock
  variants    \* the authenticate variants run on one request and page

\* the state of one login attempt
mainVars == <<req, strategy, pc, page, trace, raised, cookies, authRes, response,
              sessions, probes>>

\* the state of the components that are exercised on their own
extVars == <<mgr, otp, check, persist, store, variants>>

auxVars == <<loop, chain, bm, exch, extVars>>

vars == <<mainVars, auxVars>>

----------------------------------------------------------------------------
(* Bounds *)

\* largest number of cookies the browser context holds
MaxCookies == 2

\* latest instant of the clock, in seconds
MaxClock == 3

\* longest token lifetime a token-exchange response announces, in seconds
MaxExpiresIn == 2

\* largest timeout, in poll ticks, handed to a polling loop as an argument
\* or as settings.browserbase_captcha_timeout
MaxTimeout == 3

\* longest preference list handed to a chain factory
MaxPrefs == 3

----------------------------------------------------------------------------
(* Requests and strategy classes *)

\* auth_mode is a free string (models.py:25): the three documented modes,
\* the empty string, and a string that is no AuthMethod value
Modes == {"password", "oauth2", "hybrid", "", "bogus"}

\* AuthMethod (base.py:13-19), the values a request can name
AuthMethod == {"password", "oauth2", "hybrid", "sso", "api_key"}

\* Optional string fields are modelled by their truthiness
LoginRequest ==
  [auth_mode : Modes, password : BOOLEAN, client_id : BOOLEAN,
   client_secret : BOOLEAN, redirect_uri : BOOLEAN, otp_code : BOOLEAN]

\* The provider strategies of the repository (providers/__init__.py) and
\* subclasses of the abstract base strategies (whose abstract methods are
\* environment code)
Providers == {"Slack", "Google", "GitHub", "Microsoft365", "Salesforce", "Notion",
              "Atlassian", "Okta"}

\* the providers that extend BaseWebAuthStrategy
WebProviders == {"Microsoft365", "Notion", "Atlassian", "Okta"}
CustomClasses == {"CustomAuth", "CustomOAuth2", "CustomPassword", "CustomHybrid",
                  "CustomSSO", "CustomAPIKey"}
StrategyClasses == Providers \cup CustomClasses

\* which authenticate method the class inherits
Variant(s) ==
  CASE s \in Providers \cup {"CustomAuth", "CustomSSO"} -> "AuthStrategy"
    [] s = "CustomAPIKey" -> "APIKeyBaseStrategy"
    [] s = "CustomOAuth2" -> "OAuth2BaseStrategy"
    [] s = "CustomPassword" -> "PasswordBaseStrategy"
    [] s = "CustomHybrid" -> "HybridBaseStrategy"

\* the value of a property: the one its body returns, or none where the
\* class leaves the property abstract (base.py:31-41)
Defined(v) == [defined |-> TRUE, value |-> v]
Abstract == [defined |-> FALSE]

\* supported_methods is defined by the five method base classes only; the
\* providers and AuthStrategy itself leave it abstract
supported_methods(s) ==
  CASE s = "CustomSSO" -> Defined(<<"sso">>)
    [] s = "CustomAPIKey" -> Defined(<<"api_key">>)
    [] s = "CustomOAuth2" -> Defined(<<"oauth2">>)
    [] s = "CustomPassword" -> Defined(<<"password">>)
    [] s = "CustomHybrid" -> Defined(<<"password", "oauth2", "hybrid">>)
    [] OTHER -> Abstract

default_method(s) ==
  CASE s = "CustomSSO" -> Defined("sso")
    [] s = "CustomAPIKey" -> Defined("api_key")
    [] s = "CustomOAuth2" -> Defined("oauth2")
    [] s = "CustomPassword" -> Defined("password")
    [] s = "CustomHybrid" -> Defined("hybrid")
    [] OTHER -> Abstract

\* `method in self.supported_methods`: a truth value, or TypeError where the
\* property has no value
supports_method(s, m) ==
  LET methods == supported_methods(s) IN
    IF ~methods.defined THEN [kind |-> "raised", error |-> "TypeError"]
    ELSE [kind |-> "returned",
          value |-> \E i \in DOMAIN methods.value : methods.value[i] = m]

get_required_fields(m) ==
  CASE m = "password" -> <<"email", "password">>
    [] m = "oauth2" -> <<"client_id", "client_secret", "redirect_uri">>
    [] m = "api_key" -> <<"api_key">>
    [] OTHER -> <<"email">>

\* getattr(request, field, None), as a truth value
HasField(r, f) ==
  CASE f = "client_id" -> r.client_id
    [] f = "client_secret" -> r.client_secret
    [] f = "redirect_uri" -> r.redirect_uri
    [] f = "password" -> r.password
    [] f = "email" -> TRUE
    [] OTHER -> FALSE

\* the missing_fields list of OAuth2BaseStrategy.authenticate
MissingFields(r) ==
  SelectSeq(get_required_fields("oauth2"), LAMBDA f : ~HasField(r, f))

----------------------------------------------------------------------------
(* Values *)

\* Optional[OAuthTokens]: present = FALSE is None; "" is a missing token
NoTokens == [present |-> FALSE, access_token |-> "", refresh_token |-> ""]
FullTokens == [present |-> TRUE, access_token |-> "abc", refresh_token |-> "r1"]
AccessOnlyTokens == [present |-> TRUE, access_token |-> "abc", refresh_token |-> ""]
EmptyTokens == [present |-> TRUE, access_token |-> "", refresh_token |-> ""]
TokenValues == {NoTokens, FullTokens, AccessOnlyTokens, EmptyTokens}

\* truth value of an Optional[OAuthTokens]: a model instance is truthy
Truthy(t) == t.present

\* the cookie list extracted from a context that yields k cookies
CookieList(k) == [i \in 1..k |-> i]

Pending == [kind |-> "pending", success |-> FALSE, cookies |-> <<>>,
            message |-> <<>>, tokens |-> NoTokens]

\* a result tuple returned by authenticate
Result(ok, cs, msg, t) ==
  [kind |-> "returned", success |-> ok, cookies |-> cs,
   message |-> msg, tokens |-> t]

\* a failure return that hands back the cookies collected so far
FailureResult_KeepsCookies(msg) == Result(FALSE, cookies, msg, NoTokens)

\* every "return False, [], <message>, None" of base.py
FailureResult(msg) == Result(FALSE, <<>>, msg, NoTokens)

\* prefix of the message built by the except clause of each variant
ErrorPrefix(v) ==
  CASE v = "AuthStrategy" -> "Authentication error: "
    [] v = "OAuth2BaseStrategy" -> "OAuth2 authentication error: "
    [] v = "PasswordBaseStrategy" -> "Password authentication error: "
    [] v = "HybridBaseStrategy" -> "Hybrid authentication error: "
    [] v = "APIKeyBaseStrategy" -> "API key authentication error: "

\* an authenticate without the except clause: the error reaches the caller
ExceptResult_Propagates(v, e) ==
  [kind |-> "raised", success |-> FALSE, cookies |-> <<>>,
   message |-> <<ErrorPrefix(v), e>>, tokens |-> NoTokens]

\* the "except Exception as e" clause that closes every authenticate
ExceptResult(v, e) == FailureResult(<<ErrorPrefix(v), e>>)

\* success message of the password path
SuccessMessage(v) ==
  IF v = "AuthStrategy" THEN <<"Login successful">>
  ELSE <<"Password authentication successful">>

\* the message parts that contain the substring "CAPTCHA"
CaptchaTexts ==
  {"CAPTCHA could not be solved",
   "reCAPTCHA could not be solved automatically",
   "reCAPTCHA could not be solved automatically: 2captcha library not available",
   "reCAPTCHA could not be solved automatically: 'Settings' object has no attribute 'captcha_2captcha'",
   "Could not find password field after reCAPTCHA"}

ContainsCAPTCHA(msg) == \E i \in DOMAIN msg : msg[i] \in CaptchaTexts

NoResponse == [kind |-> "pending", success |-> FALSE, message |-> <<>>,
               session_id |-> 0, access_token |-> "", refresh_token |-> ""]

\* LoginResponse (models.py:59-69); session_id 0 and "" stand for None
LoginResponse(ok, msg, sid, access, refresh) ==
  [kind |-> "response", success |-> ok, message |-> msg,
   session_id |-> sid, access_token |-> access, refresh_token |-> refresh]

----------------------------------------------------------------------------
(* Initial state: a request and a registered strategy class, nothing run *)

\* settings.browser_provider (manager.py:62-65)
BrowserProviderSettings == {"local", "browserbase"}

\* browser_provider is the configured provider, provider the one whose page
\* the attempt holds
NoPage == [acquired |-> FALSE, released |-> FALSE, password_entered |-> FALSE,
           challenge |-> FALSE, solvable |-> FALSE,
           browser_provider |-> "local", provider |-> "none"]

\* a component that is not exercised
Idle == [kind |-> "idle"]

ExtIdle ==
  /\ mgr = Idle /\ otp = Idle /\ check = Idle
  /\ persist = Idle /\ store = Idle /\ variants = Idle

AuxIdle == loop = Idle /\ chain = Idle /\ bm = Idle /\ exch = Idle /\ ExtIdle

Init ==
  /\ req \in LoginRequest
  /\ strategy \in StrategyClasses
  /\ pc = "create_strategy"
  /\ \E b \in BrowserProviderSettings : page = [NoPage EXCEPT !.browser_provider = b]
  /\ trace = <<>>
  /\ raised = {}
  /\ cookies = <<>>
  /\ authRes = Pending
  /\ response = NoResponse
  /\ sessions = {}
  /\ probes = <<>>
  /\ AuxIdle

----------------------------------------------------------------------------
(* Helpers shared by the steps of authenticate *)

\* an invocation of strategy method op while authenticate step d is running
Call(op, d) == trace' = Append(trace, [op |-> op, during |-> d])

\* authenticate hands res to main.login
Return(res) ==
  /\ authRes' = res
  /\ pc' = "release"

\* method m raised e: control reaches the except clause of authenticate
Raise(m, e) ==
  /\ raised' = raised \cup {m}
  /\ Return(ExceptResult(Variant(strategy), e))

\* texts of the errors the page and the environment code raise
PageErrors == {"TimeoutError"}

\* does the class leave the hook to code outside the repository
Overrides(s) == s \in CustomClasses

----------------------------------------------------------------------------
(* main.login, before authenticate *)

\* the "except Exception" clause of main.login
MainExcept(e) == LoginResponse(FALSE, <<"Authentication error: ", e>>, 0, "", "")

\* auth_factory.create_strategy(request.provider): instantiates the class.
\* A class that leaves an abstract member undefined (as the providers leave
\* supported_methods and default_method) raises TypeError here; the steps of
\* authenticate are those of an instance that exists, so both are kept
CreateStrategy ==
  /\ pc = "create_strategy"
  /\ \/ /\ pc' = "get_page"
        /\ UNCHANGED response
     \/ /\ response' = MainExcept("Can't instantiate abstract class")
        /\ pc' = "done"
  /\ UNCHANGED <<auxVars, probes, req, strategy, cookies, page, trace, raised, authRes, sessions>>

\* the providers whose page get_page can hand out: the configured one, or
\* the local one when Browserbase failed (manager.py:89-106)
ServingProviders(b) == IF b = "browserbase" THEN {"browserbase", "local"} ELSE {"local"}

\* async with browser_manager.get_page(...) as page
GetPage ==
  /\ pc = "get_page"
  /\ \/ /\ \E pr \in ServingProviders(page.browser_provider) :
             page' = [page EXCEPT !.acquired = TRUE, !.provider = pr]
        /\ pc' = "authenticate"
        /\ UNCHANGED response
     \/ /\ response' = MainExcept("browser")
        /\ pc' = "done"
        /\ UNCHANGED page
  /\ UNCHANGED <<auxVars, probes, req, strategy, cookies, trace, raised, authRes, sessions>>

----------------------------------------------------------------------------
(* authenticate: mode dispatch and the OAuth2 step *)

\* AuthMethod(request.auth_mode) if request.auth_mode else default_method
auth_method(s, r) ==
  IF r.auth_mode = "" THEN default_method(s).value ELSE r.auth_mode

\* the first thing authenticate does, per variant
FirstStep(s, r) ==
  CASE Variant(s) = "AuthStrategy" ->
         IF r.auth_mode \in {"oauth2", "hybrid"} THEN "oauth2_login" ELSE "login"
    [] Variant(s) = "OAuth2BaseStrategy" ->
         IF MissingFields(r) # <<>> THEN "missing_fields" ELSE "oauth2_login"
    [] Variant(s) = "PasswordBaseStrategy" -> "login"
    [] Variant(s) = "APIKeyBaseStrategy" -> "api_key_login"
    [] Variant(s) = "HybridBaseStrategy" ->
         IF r.auth_mode # "" /\ r.auth_mode \notin AuthMethod THEN "value_error"
         ELSE IF auth_method(s, r) \in {"oauth2", "hybrid"} THEN "oauth2_login"
         ELSE "login"

Authenticate ==
  /\ pc = "authenticate"
  /\ LET f == FirstStep(strategy, req) IN
       \/ /\ f \notin {"missing_fields", "value_error"}
          /\ pc' = f
          /\ UNCHANGED <<authRes, raised>>
       \/ /\ f = "missing_fields"
          /\ Return(FailureResult(<<"Missing required OAuth2 fields: ">> \o MissingFields(req)))
          /\ UNCHANGED raised
       \/ /\ f = "value_error"
          /\ Raise("AuthMethod", "is not a valid AuthMethod")
  /\ UNCHANGED <<auxVars, probes, req, strategy, cookies, page, trace, response, sessions>>

\* a hybrid fallback that tries the OAuth2 step again before the password
\* login
AfterOAuth2_Retries(s, r, t) ==
  IF Truthy(t) THEN "success"
  ELSE IF r.auth_mode = "oauth2" THEN "fail"
  ELSE IF Len(trace) < 2 THEN "oauth2_login" ELSE "login"

\* what authenticate does with the value oauth2_login returned
AfterOAuth2(s, r, t) ==
  CASE Variant(s) = "AuthStrategy" ->
         IF r.auth_mode = "oauth2"
         THEN IF ~Truthy(t) THEN "fail" ELSE "success"
         ELSE IF Truthy(t) THEN "success" ELSE "login"
    [] Variant(s) = "OAuth2BaseStrategy" ->
         IF Truthy(t) /\ t.access_token # "" THEN "success" ELSE "fail"
    [] Variant(s) = "HybridBaseStrategy" ->
         IF Truthy(t) THEN "success"
         ELSE IF auth_method(s, r) = "oauth2" THEN "fail" ELSE "login"
    [] OTHER -> "fail"

OAuth2SuccessMessage(s, r) ==
  IF Variant(s) = "AuthStrategy" /\ r.auth_mode = "hybrid"
  THEN <<"Hybrid OAuth2 authentication successful">>
  ELSE <<"OAuth2 authentication successful">>

OAuth2FailureMessage(s) ==
  IF Variant(s) = "OAuth2BaseStrategy"
  THEN <<"OAuth2 authentication failed - no valid tokens received">>
  ELSE <<"OAuth2 authentication failed">>

\* the values oauth2_login of the class can return
OAuth2Returns(s) == IF Overrides(s) THEN TokenValues ELSE {NoTokens}

OAuth2Login ==
  /\ pc = "oauth2_login"
  /\ Call("oauth2_login", "oauth2_login")
  /\ \/ \E t \in OAuth2Returns(strategy) :
          LET a == AfterOAuth2(strategy, req, t) IN
            /\ UNCHANGED raised
            /\ \/ /\ a = "success"
                  /\ Return(Result(TRUE, <<>>, OAuth2SuccessMessage(strategy, req), t))
               \/ /\ a = "fail"
                  /\ Return(FailureResult(OAuth2FailureMessage(strategy)))
               \/ /\ a \notin {"success", "fail"}
                  /\ pc' = a
                  /\ UNCHANGED authRes
     \/ /\ Overrides(strategy)
        /\ \E e \in PageErrors : Raise("oauth2_login", e)
  /\ UNCHANGED <<auxVars, probes, req, strategy, cookies, page, response, sessions>>

\* APIKeyBaseStrategy.authenticate: api_key_login decides alone
APIKeyLogin ==
  /\ pc = "api_key_login"
  /\ Call("api_key_login", "api_key_login")
  /\ \/ \E t \in TokenValues :
          /\ UNCHANGED raised
          /\ IF Truthy(t)
             THEN Return(Result(TRUE, <<>>, <<"API key authentication successful">>, t))
             ELSE Return(FailureResult(<<"API key authentication failed">>))
     \/ \E e \in PageErrors : Raise("api_key_login", e)
  /\ UNCHANGED <<auxVars, probes, req, strategy, cookies, page, response, sessions>>

----------------------------------------------------------------------------
(* The login step, per strategy class *)

\* login returned: authenticate goes on to handle_captcha.  entered tells
\* whether login typed a password.  The page may now show a challenge;
\* solvable records whether any solver of the configured chain would clear it.
LoginReturns(entered) ==
  /\ pc' = "handle_captcha"
  /\ \E c \in BOOLEAN : \E sv \in BOOLEAN :
       /\ (~c => ~sv)
       /\ page' = [page EXCEPT !.password_entered = entered,
                               !.challenge = c, !.solvable = sv]
  /\ UNCHANGED <<authRes, raised>>

\* GoogleAuthStrategy.login: navigate, fill the email, go on to the password
\* step, require the password, fill it and submit
GoogleLogin ==
  /\ pc = "login" /\ strategy = "Google"
  /\ Call("login", "login")
  /\ \/ \E e \in PageErrors : Raise("login", e) /\ UNCHANGED page
     \/ /\ ~req.password
        /\ Raise("login", "Password is required for Google login")
        /\ UNCHANGED page
     \/ /\ req.password
        /\ LoginReturns(TRUE)
  /\ UNCHANGED <<auxVars, probes, req, strategy, cookies, response, sessions>>

\* SalesforceAuthStrategy.login: navigate, fill the user name and
\* request.password as it is (an empty one included), click and wait
SalesforceLogin ==
  /\ pc = "login" /\ strategy = "Salesforce"
  /\ Call("login", "login")
  /\ \/ \E e \in PageErrors : Raise("login", e) /\ UNCHANGED page
     \/ LoginReturns(req.password)
  /\ UNCHANGED <<auxVars, probes, req, strategy, cookies, response, sessions>>

\* GitHubAuthStrategy.login: navigate, fill the login name, require the
\* password, fill it and submit
GitHubLogin ==
  /\ pc = "login" /\ strategy = "GitHub"
  /\ Call("login", "login")
  /\ \/ \E e \in PageErrors : Raise("login", e) /\ UNCHANGED page
     \/ /\ ~req.password
        /\ Raise("login", "Password is required for GitHub login")
        /\ UNCHANGED page
     \/ /\ req.password
        /\ LoginReturns(TRUE)
  /\ UNCHANGED <<auxVars, probes, req, strategy, cookies, response, sessions>>

\* BaseWebAuthStrategy.fill_credentials: the password is filled only if the
\* request has one; TRUE when a password field was filled
fill_credentials(r, fieldVisible) == r.password /\ fieldVisible

\* OktaAuthStrategy.login: navigate, fill_credentials, submit_form, wait;
\* only the navigation and the final wait can raise
OktaLogin ==
  /\ pc = "login" /\ strategy = "Okta"
  /\ Call("login", "login")
  /\ \/ \E e \in PageErrors : Raise("login", e) /\ UNCHANGED page
     \/ \E visible \in BOOLEAN :
          LoginReturns(fill_credentials(req, visible))
  /\ UNCHANGED <<auxVars, probes, req, strategy, cookies, response, sessions>>

\* the login of NotionAuthStrategy, AtlassianAuthStrategy and
\* Microsoft365AuthStrategy: the same four calls as OktaAuthStrategy.login
WebLogin ==
  /\ pc = "login" /\ strategy \in WebProviders \ {"Okta"}
  /\ Call("login", "login")
  /\ \/ \E e \in PageErrors : Raise("login", e) /\ UNCHANGED page
     \/ \E visible \in BOOLEAN :
          LoginReturns(fill_credentials(req, visible))
  /\ UNCHANGED <<auxVars, probes, req, strategy, cookies, response, sessions>>

\* SSOBaseStrategy.login (OAuth2BaseStrategy.login is the same, and is
\* never called by OAuth2BaseStrategy.authenticate)
SSOLogin ==
  /\ pc = "login" /\ strategy = "CustomSSO"
  /\ Call("login", "login")
  /\ Raise("login", "Use sso_login method for SSO authentication")
  /\ UNCHANGED <<auxVars, probes, req, strategy, cookies, page, response, sessions>>

\* login of a subclass that implements the abstract login
CustomLogin ==
  /\ pc = "login" /\ strategy \in {"CustomAuth", "CustomPassword", "CustomHybrid"}
  /\ Call("login", "login")
  /\ \/ \E e \in PageErrors : Raise("login", e) /\ UNCHANGED page
     \/ \E entered \in BOOLEAN :
          /\ (entered => req.password)
          /\ LoginReturns(entered)
  /\ UNCHANGED <<auxVars, probes, req, strategy, cookies, response, sessions>>

\* SlackAuthStrategy.login up to the filled email field (slack.py:34-140)
SlackLoginEmail ==
  /\ pc = "login" /\ strategy = "Slack"
  /\ Call("login", "login")
  /\ \/ \E e \in PageErrors \cup {"Could not find email input field on Slack login page",
                                  "Email input field not found on Slack login page"} :
          Raise("login", e)
     \/ /\ pc' = "slack_recaptcha_1"
        /\ UNCHANGED <<authRes, raised>>
  /\ UNCHANGED <<auxVars, probes, req, strategy, cookies, page, response, sessions>>

\* which of login's two reCAPTCHA checks a position belongs to
RecaptchaCall(p) ==
  IF p \in {"slack_recaptcha_1", "slack_solve_1"} THEN 1 ELSE 2

\* where login continues after each of its two reCAPTCHA checks
AfterRecaptcha(p) ==
  IF RecaptchaCall(p) = 1 THEN "slack_passwordless" ELSE "slack_password_field"

\* one challenge check: what the page showed when the step was entered,
\* whether a solver was invoked, and how the step ended
Probe(step, present, probeError, outcome) ==
  [step |-> step, present |-> present, probe_error |-> probeError,
   solve |-> FALSE, outcome |-> outcome]

\* the last challenge check called the solver, which raised
SolveRaised ==
  probes' = [probes EXCEPT ![Len(probes)].solve = TRUE,
                           ![Len(probes)].outcome = "raise"]

\* _handle_recaptcha_if_present: probe the indicators; solve only if one
\* was found; a probe that raises ends the check with ValueError
handle_recaptcha_if_present(found, probeError) ==
  IF probeError THEN "raise"
  ELSE IF found THEN "solve" ELSE "ok"

\* SlackAuthStrategy._handle_recaptcha_if_present, called inside login
\* after the email interaction and after the continue button
SlackRecaptcha ==
  /\ pc \in {"slack_recaptcha_1", "slack_recaptcha_2"}
  /\ Call("_handle_recaptcha_if_present", "login")
  /\ \E found \in BOOLEAN : \E probeError \in BOOLEAN :
       LET r == handle_recaptcha_if_present(found, probeError) IN
         \/ /\ r = "ok"
            /\ probes' = Append(probes,
                 Probe("_handle_recaptcha_if_present", found, probeError, "ok"))
            /\ pc' = AfterRecaptcha(pc)
            /\ UNCHANGED <<authRes, raised>>
         \/ /\ r = "solve"
            /\ probes' = Append(probes,
                 Probe("_handle_recaptcha_if_present", found, probeError, "pending"))
            /\ pc' = IF RecaptchaCall(pc) = 1 THEN "slack_solve_1" ELSE "slack_solve_2"
            /\ UNCHANGED <<authRes, raised>>
         \/ /\ r = "raise"
            /\ probes' = Append(probes,
                 Probe("_handle_recaptcha_if_present", found, probeError, "raise"))
            /\ Raise("login", "reCAPTCHA could not be solved automatically")
  /\ UNCHANGED <<auxVars, req, strategy, cookies, page, response, sessions>>

\* _solve_recaptcha (slack.py:355-368): without the twocaptcha package it
\* raises ValueError; with it, the test of settings.captcha_2captcha raises
\* AttributeError, as Settings defines no such attribute, so the 2captcha
\* service is never called.  The text is the one _handle_recaptcha_if_present
\* re-raises
solve_recaptcha(available) ==
  IF available
  THEN "reCAPTCHA could not be solved automatically: 'Settings' object has no attribute 'captcha_2captcha'"
  ELSE "reCAPTCHA could not be solved automatically: 2captcha library not available"

\* SlackAuthStrategy._solve_recaptcha, called when an indicator was found;
\* its error ends the check and login
SlackSolveRecaptcha ==
  /\ pc \in {"slack_solve_1", "slack_solve_2"}
  /\ Call("_solve_recaptcha", "login")
  /\ SolveRaised
  /\ \E available \in BOOLEAN : Raise("login", solve_recaptcha(available))
  /\ UNCHANGED <<auxVars, req, strategy, cookies, page, response, sessions>>

\* the passwordless branch (slack.py:146-161): with the button visible and
\* no password, login clicks it and returns
SlackPasswordless ==
  /\ pc = "slack_passwordless"
  /\ \/ \E e \in PageErrors : Raise("login", e) /\ UNCHANGED page
     \/ \E button \in BOOLEAN :
          IF button /\ ~req.password
          THEN LoginReturns(FALSE)
          ELSE /\ pc' = "slack_continue"
               /\ UNCHANGED <<authRes, raised, page>>
  /\ UNCHANGED <<auxVars, probes, req, strategy, cookies, trace, response, sessions>>

\* click the continue button or press Enter (slack.py:163-205)
SlackContinue ==
  /\ pc = "slack_continue"
  /\ \/ \E e \in PageErrors : Raise("login", e)
     \/ /\ pc' = "slack_recaptcha_2"
        /\ UNCHANGED <<authRes, raised>>
  /\ UNCHANGED <<auxVars, probes, req, strategy, cookies, page, trace, response, sessions>>

\* what the page shows when no password field appears (slack.py:260-276)
PageKinds == {"workspace", "two_factor", "password_text", "other"}

\* wait for the password field (slack.py:207-280); every error raised in
\* the block is re-raised as ValueError
SlackPasswordField ==
  /\ pc = "slack_password_field"
  /\ \/ /\ Raise("login", "Could not find password field after reCAPTCHA")
        /\ UNCHANGED page
     \/ /\ pc' = "slack_password"
        /\ UNCHANGED <<authRes, raised, page>>
     \/ \E k \in PageKinds :
          \/ /\ k \in {"workspace", "other"}
             /\ LoginReturns(FALSE)
          \/ /\ k = "two_factor"
             /\ pc' = "slack_2fa"
             /\ UNCHANGED <<authRes, raised, page>>
          \/ /\ k = "password_text"
             /\ Raise("login", "Could not find password field after reCAPTCHA")
             /\ UNCHANGED page
  /\ UNCHANGED <<auxVars, probes, req, strategy, cookies, trace, response, sessions>>

\* SlackAuthStrategy._handle_2fa, called inside login (slack.py:269)
Slack2FA ==
  /\ pc = "slack_2fa"
  /\ Call("_handle_2fa", "login")
  /\ \E input \in BOOLEAN :
       IF input /\ req.otp_code
       THEN \/ LoginReturns(FALSE)
            \/ /\ Raise("login", "Could not find password field after reCAPTCHA")
               /\ UNCHANGED page
       ELSE /\ Raise("login", "Could not find password field after reCAPTCHA")
            /\ UNCHANGED page
  /\ UNCHANGED <<auxVars, probes, req, strategy, cookies, response, sessions>>

\* require, fill and submit the password (slack.py:282-307)
SlackPassword ==
  /\ pc = "slack_password"
  /\ IF ~req.password
     THEN /\ Raise("login", "Password is required for this login method")
          /\ UNCHANGED page
     ELSE \/ LoginReturns(TRUE)
          \/ \E e \in PageErrors : Raise("login", e) /\ UNCHANGED page
  /\ UNCHANGED <<auxVars, probes, req, strategy, cookies, trace, response, sessions>>


----------------------------------------------------------------------------
(* The phases after login *)

\* AuthStrategy.handle_captcha: no provider of the repository overrides it
handle_captcha(pg) == TRUE

\* AuthStrategy.handle_2fa: no provider of the repository overrides it
handle_2fa(pg, r) == TRUE

\* the values a hook returns: the base implementation's, or any value when
\* the class brings its own
HookReturns(s, base) == IF Overrides(s) THEN BOOLEAN ELSE {base}

HandleCaptcha ==
  /\ pc = "handle_captcha"
  /\ Call("handle_captcha", "handle_captcha")
  /\ \/ \E r \in HookReturns(strategy, handle_captcha(page)) :
          /\ UNCHANGED raised
          /\ probes' = Append(probes, Probe("handle_captcha", page.challenge, FALSE,
                                           IF r THEN "ok" ELSE "fail"))
          /\ IF ~r
             THEN Return(FailureResult(<<"CAPTCHA could not be solved">>))
             ELSE pc' = "handle_2fa" /\ UNCHANGED authRes
     \/ /\ Overrides(strategy)
        /\ probes' = Append(probes, Probe("handle_captcha", page.challenge, TRUE, "raise"))
        /\ \E e \in PageErrors : Raise("handle_captcha", e)
  /\ UNCHANGED <<auxVars, req, strategy, cookies, page, response, sessions>>

Handle2FA ==
  /\ pc = "handle_2fa"
  /\ Call("handle_2fa", "handle_2fa")
  /\ \/ \E r \in HookReturns(strategy, handle_2fa(page, req)) :
          /\ UNCHANGED raised
          /\ IF ~r
             THEN Return(FailureResult(<<"2FA could not be completed">>))
             ELSE pc' = "is_success" /\ UNCHANGED authRes
     \/ /\ Overrides(strategy)
        /\ \E e \in PageErrors : Raise("handle_2fa", e)
  /\ UNCHANGED <<auxVars, probes, req, strategy, cookies, page, response, sessions>>

\* is_success: the providers' checks swallow every probe error and answer
\* from what the page shows
IsSuccess ==
  /\ pc = "is_success"
  /\ Call("is_success", "is_success")
  /\ \/ \E r \in BOOLEAN :
          /\ UNCHANGED raised
          /\ IF ~r
             THEN Return(FailureResult(<<"Login failed - invalid credentials or other error">>))
             ELSE pc' = "extract_cookies" /\ UNCHANGED authRes
     \/ /\ Overrides(strategy)
        /\ \E e \in PageErrors : Raise("is_success", e)
  /\ UNCHANGED <<auxVars, probes, req, strategy, cookies, page, response, sessions>>

\* what authenticate does with the extracted cookie list
AfterExtract(s, cs) ==
  IF cs = <<>> THEN "fail"
  ELSE IF Variant(s) = "AuthStrategy" THEN "extract_oauth_tokens" ELSE "success"

\* the errors of extract_cookies: those of the page, and the IndexError of
\* page.url.split("//")[1] (base.py:111) when no session cookie matched and
\* the URL of the page has no "//"
ExtractCookiesErrors == PageErrors \cup {"list index out of range"}

\* extract_cookies: page.context.cookies() filtered by the class's policy
ExtractCookies ==
  /\ pc = "extract_cookies"
  /\ Call("extract_cookies", "extract_cookies")
  /\ \/ \E k \in 0..MaxCookies :
          LET cs == CookieList(k)
              a == AfterExtract(strategy, cs) IN
            /\ UNCHANGED raised
            /\ cookies' = cs
            /\ \/ /\ a = "fail"
                  /\ Return(FailureResult(<<"No valid session cookies found">>))
               \/ /\ a = "success"
                  /\ Return(Result(TRUE, cs, SuccessMessage(Variant(strategy)), NoTokens))
               \/ /\ a = "extract_oauth_tokens"
                  /\ pc' = a
                  /\ UNCHANGED authRes
     \/ /\ \E e \in ExtractCookiesErrors : Raise("extract_cookies", e)
        /\ UNCHANGED cookies
  /\ UNCHANGED <<auxVars, probes, req, strategy, page, response, sessions>>

\* the values extract_oauth_tokens of the class can return
ExtractTokensReturns(s) == IF Overrides(s) THEN TokenValues ELSE {NoTokens}

\* step 7 of AuthStrategy.authenticate
ExtractOAuthTokens ==
  /\ pc = "extract_oauth_tokens"
  /\ Call("extract_oauth_tokens", "extract_oauth_tokens")
  /\ \/ \E t \in ExtractTokensReturns(strategy) :
          /\ UNCHANGED raised
          /\ Return(Result(TRUE, cookies, SuccessMessage(Variant(strategy)), t))
     \/ /\ Overrides(strategy)
        /\ \E e \in PageErrors : Raise("extract_oauth_tokens", e)
  /\ UNCHANGED <<auxVars, probes, req, strategy, cookies, page, response, sessions>>

----------------------------------------------------------------------------
(* main.login, after authenticate *)

\* the calls of LocalBrowserProvider's teardown that can raise
\* (local_browser.py:103-106)
LocalCloseErrors == {"context.close", "browser.close"}

\* leaving the "async with" block runs the teardown of the provider that
\* handed the page.  An error of the local provider's context.close or
\* browser.close leaves the block as the error of the attempt.  An error of
\* Browserbase's sessions.close is swallowed: the block is left normally
\* with the remote session still open.
ReleasePage ==
  /\ pc = "release"
  /\ \/ /\ page.provider = "local"
        /\ page' = [page EXCEPT !.released = TRUE]
        /\ pc' = "respond"
        /\ UNCHANGED response
     \/ /\ page.provider = "local"
        /\ \E e \in LocalCloseErrors : response' = MainExcept(e)
        /\ pc' = "done"
        /\ UNCHANGED page
     \/ /\ page.provider = "browserbase"
        /\ \E closed \in BOOLEAN : page' = [page EXCEPT !.released = closed]
        /\ pc' = "respond"
        /\ UNCHANGED response
  /\ UNCHANGED <<auxVars, probes, req, strategy, cookies, trace, raised, authRes, sessions>>

\* the response main.login builds from a result (main.py:77-117)
BuildResponse(res, sid) ==
  IF res.success
  THEN LoginResponse(TRUE,
         IF Truthy(res.tokens) THEN <<"Login successful (OAuth2 tokens acquired)">>
         ELSE res.message,
         sid,
         IF Truthy(res.tokens) THEN res.tokens.access_token ELSE "",
         IF Truthy(res.tokens) THEN res.tokens.refresh_token ELSE "")
  ELSE LoginResponse(FALSE, res.message, 0, "", "")

\* session_id = str(uuid.uuid4()): a fresh id
NewSessionId == Cardinality(sessions) + 1

Respond ==
  /\ pc = "respond"
  /\ pc' = "done"
  /\ \/ /\ authRes.kind = "raised"
        /\ response' = MainExcept(authRes.message[2])
        /\ UNCHANGED sessions
     \/ /\ authRes.kind = "returned" /\ ~authRes.success
        /\ response' = BuildResponse(authRes, 0)
        /\ UNCHANGED sessions
     \/ /\ authRes.kind = "returned" /\ authRes.success
        /\ \/ /\ sessions' = sessions \cup
                   {[session_id |-> NewSessionId, cookies |-> authRes.cookies,
                     oauth_tokens |-> authRes.tokens]}
              /\ response' = BuildResponse(authRes, NewSessionId)
           \/ /\ response' = MainExcept("save_session")
              /\ UNCHANGED sessions
  /\ UNCHANGED <<auxVars, probes, req, strategy, cookies, page, trace, raised, authRes>>

----------------------------------------------------------------------------

Next ==
  \/ CreateStrategy
  \/ GetPage
  \/ Authenticate
  \/ OAuth2Login
  \/ APIKeyLogin
  \/ SSOLogin
  \/ GoogleLogin
  \/ GitHubLogin
  \/ SalesforceLogin
  \/ OktaLogin
  \/ WebLogin
  \/ CustomLogin
  \/ SlackLoginEmail
  \/ SlackRecaptcha
  \/ SlackSolveRecaptcha
  \/ SlackPasswordless
  \/ SlackContinue
  \/ SlackPasswordField
  \/ Slack2FA
  \/ SlackPassword
  \/ HandleCaptcha
  \/ Handle2FA
  \/ IsSuccess
  \/ ExtractCookies
  \/ ExtractOAuthTokens
  \/ ReleasePage
  \/ Respond

Spec == Init /\ [][Next]_vars

\* the positions at which the attempt awaits a remote service through
\* run_in_executor with no timeout: Browserbase's sessions.create on the way
\* into get_page (browserbase_provider.py:74-76) and its sessions.close on
\* the way out (browserbase_provider.py:111-113)
UnboundedAwait ==
  \/ pc = "get_page" /\ page.browser_provider = "browserbase"
  \/ pc = "release" /\ page.provider = "browserbase"

\* a step of the service itself: everything but the answer of a remote
\* service that the code awaits without a timeout
ProgramStep == ~UnboundedAwait /\ Next

\* the event loop runs every step of the attempt that is ready; Playwright
\* calls end within their default timeout, by a value or by TimeoutError
FairSpec == Spec /\ WF_vars(ProgramStep)

----------------------------------------------------------------------------
(* Properties *)

\* the methods invoked so far
Ops == {trace[i].op : i \in DOMAIN trace}

\* how often method op was invoked
Count(op) == Cardinality({i \in DOMAIN trace : trace[i].op = op})

\* authenticate has handed its outcome to main.login
AuthFinished == page.acquired /\ pc \in {"release", "respond", "done"}

\* the phase a method belongs to, in the order of the state machine
PhaseRank(op) ==
  CASE op \in {"oauth2_login", "api_key_login"} -> 0
    [] op = "login" -> 1
    [] op \in {"handle_captcha", "_handle_recaptcha_if_present", "_solve_recaptcha"} -> 2
    [] op \in {"handle_2fa", "_handle_2fa"} -> 3
    [] op = "is_success" -> 4
    [] op = "extract_cookies" -> 5
    [] op = "extract_oauth_tokens" -> 6

\* the phases of the password flow after login
LaterPhases == {"handle_2fa", "_handle_2fa", "is_success", "extract_cookies",
                "extract_oauth_tokens"}

\* C1: authenticate always hands a (success, cookies, message, tokens)
\* result to its caller and never a raised error; and whenever one of its
\* steps raised, that result has success = false.
C1_AlwaysTypedResult ==
  /\ authRes.kind # "raised"
  /\ AuthFinished => authRes.kind = "returned"
  /\ raised # {} => (authRes.kind = "returned" /\ ~authRes.success)

\* a step after the login raised and the attempt ended with a failure result
C1_Witness ==
  /\ pc = "done"
  /\ raised \cap {"handle_captcha", "handle_2fa", "is_success", "extract_cookies"} # {}
  /\ authRes.kind = "returned" /\ ~authRes.success

\* C2: on the password path the phases run strictly in the order login,
\* challenge, OTP, success check, extraction: no phase runs twice, nothing
\* of a later phase runs inside an earlier one, and a phase that reported
\* failure is the last one that ran.
C2_StrictPhaseOrder ==
  /\ \A i \in DOMAIN trace :
       /\ trace[i].during = trace[i].op
       /\ \A j \in DOMAIN trace :
            i < j => PhaseRank(trace[i].op) < PhaseRank(trace[j].op)
  /\ (AuthFinished /\ authRes.message = <<"CAPTCHA could not be solved">>)
       => trace[Len(trace)].op = "handle_captcha"
  /\ (AuthFinished /\ authRes.message = <<"2FA could not be completed">>)
       => trace[Len(trace)].op = "handle_2fa"
  /\ (AuthFinished /\ authRes.message = <<"Login failed - invalid credentials or other error">>)
       => trace[Len(trace)].op = "is_success"
  /\ (AuthFinished /\ authRes.message = <<"No valid session cookies found">>)
       => trace[Len(trace)].op = "extract_cookies"

\* C3: a failure result carries no cookies and no tokens, and the login
\* response built from it has no session id and no access or refresh token.
C3_FailureCarriesNothing ==
  /\ (authRes.kind = "returned" /\ ~authRes.success)
       => (authRes.cookies = <<>> /\ authRes.tokens = NoTokens)
  /\ (response.kind = "response" /\ ~response.success)
       => (response.session_id = 0 /\ response.access_token = ""
           /\ response.refresh_token = "")

\* cookies had been extracted when the attempt failed, and neither the
\* result nor the response carries them
C3_Witness ==
  /\ pc = "done"
  /\ cookies # <<>>
  /\ authRes.kind = "returned" /\ ~authRes.success /\ authRes.cookies = <<>>
  /\ response.kind = "response" /\ ~response.success /\ response.session_id = 0

\* C4: a success result carries at least one cookie or a token set with an
\* access token.
C4_SuccessCarriesCredential ==
  (authRes.kind = "returned" /\ authRes.success)
    => \/ authRes.cookies # <<>>
       \/ (Truthy(authRes.tokens) /\ authRes.tokens.access_token # "")

\* C5: an oauth2 request without client_id or redirect_uri ends in a
\* configuration failure, with no page acquired and no strategy method
\* run on a page before that.
C5_ConfigFailureBeforeBrowser ==
  (req.auth_mode = "oauth2" /\ (~req.client_id \/ ~req.redirect_uri))
    => /\ ~page.acquired
       /\ trace = <<>>
       /\ AuthFinished =>
            authRes = FailureResult(<<"Missing required OAuth2 fields: ">> \o MissingFields(req))

\* C6: in hybrid mode the password login starts whenever the OAuth2 step
\* did not deliver tokens, whether it returned none or raised.
C6_HybridFallsBack ==
  (AuthFinished /\ req.auth_mode = "hybrid" /\ "oauth2_login" \in Ops
     /\ "login" \notin Ops)
    => (authRes.success /\ Truthy(authRes.tokens))

\* C7: oauth2_login and login are each invoked at most once in an attempt,
\* and oauth2_login is never invoked after login.
C7_FallbackOnce ==
  /\ Count("oauth2_login") <= 1
  /\ Count("login") <= 1
  /\ \A i \in DOMAIN trace : \A j \in DOMAIN trace :
       (trace[i].op = "login" /\ i < j) => trace[j].op # "oauth2_login"

\* a hybrid attempt whose OAuth2 step gave no tokens went on to the password
\* login and finished
C7_Witness ==
  /\ pc = "done"
  /\ req.auth_mode = "hybrid"
  /\ Len(trace) >= 2
  /\ trace[1].op = "oauth2_login" /\ trace[2].op = "login"

\* C8: in oauth2 mode authenticate runs nothing but the OAuth2 step, whose
\* tokens decide the outcome, and in password mode it never runs the OAuth2
\* step.
C8_ModeDispatch ==
  /\ req.auth_mode = "oauth2"
       => /\ Ops \subseteq {"oauth2_login"}
          /\ (AuthFinished /\ authRes.success) =>
               (Ops = {"oauth2_login"} /\ Truthy(authRes.tokens)
                /\ authRes.cookies = <<>>)
  /\ req.auth_mode = "password" => "oauth2_login" \notin Ops

\* C9: an attempt that reaches the password login of a provider strategy
\* with an empty password ends with success = false: login ran once and no
\* later phase makes the attempt a success.
C9_EmptyPasswordFails ==
  (AuthFinished /\ strategy \in Providers /\ "login" \in Ops /\ ~req.password)
    => (~authRes.success /\ Count("login") = 1)

\* C10: in password mode, when the challenge phase of a strategy of the
\* repository ran on a page that shows a challenge after login which no
\* solver of the chain clears, the attempt ends with success = false and a
\* message containing "CAPTCHA", and no later phase runs.
C10_UnsolvedChallengeFails ==
  (req.auth_mode = "password" /\ ~Overrides(strategy)
     /\ "handle_captcha" \in Ops /\ page.challenge /\ ~page.solvable)
    => /\ Ops \cap LaterPhases = {}
       /\ AuthFinished => (~authRes.success /\ ContainsCAPTCHA(authRes.message))


----------------------------------------------------------------------------
(* Scenario A, the challenge step, termination *)

\* password mode, login completed without its own OTP handling, no challenge
\* on the page, every phase up to the cookie extraction passed and at least
\* one cookie was extracted
ScenarioA ==
  /\ AuthFinished
  /\ req.auth_mode = "password"
  /\ "extract_cookies" \in Ops
  /\ "extract_cookies" \notin raised
  /\ "_handle_2fa" \notin Ops
  /\ ~page.challenge
  /\ cookies # <<>>

\* C11: in password mode, when login completes, no challenge and no OTP
\* prompt is present, the success check passes and at least one cookie is
\* extracted, the result has success=true, exactly the extracted cookie
\* list, and no tokens.
C11_ScenarioA_NoTokens ==
  ScenarioA =>
    /\ authRes.kind = "returned"
    /\ authRes.success
    /\ authRes.cookies = cookies
    /\ ~Truthy(authRes.tokens)

\* the challenge checks made by code of the repository
RepositoryProbes ==
  {i \in DOMAIN probes :
     probes[i].step = "_handle_recaptcha_if_present" \/ ~Overrides(strategy)}

\* the challenge steps of the repository: the two checks inside Slack's
\* login and handle_captcha of a class that keeps the base implementation
InChallengeStep ==
  \/ pc \in {"slack_recaptcha_1", "slack_recaptcha_2"}
  \/ pc = "handle_captcha" /\ ~Overrides(strategy)

\* C16: if no challenge indicator is present on the page when the challenge
\* step is entered, the step reports success without invoking a solver, and
\* the step leaves the page as it found it.
C16_NoChallengeNoSolver ==
  /\ [](/\ \A i \in RepositoryProbes :
            ~probes[i].present =>
              /\ probes[i].outcome = "ok"
              /\ ~probes[i].solve
        /\ Count("_solve_recaptcha")
             <= Cardinality({i \in DOMAIN probes : probes[i].present}))
  /\ [][(InChallengeStep /\ Len(probes') > Len(probes)
           /\ ~probes'[Len(probes')].present) => page' = page]_vars

\* C32: in every detection routine an error raised by a single probe is
\* treated as "did not match": the remaining probes are evaluated, the
\* result is the one the routine gives with that probe not matching, and the
\* error never fails the phase or the attempt. For the challenge detection
\* of the Slack strategy: a check in which a probe raised and no solver was
\* invoked does not end with an error.
C32_ProbeErrorIsNoMatch ==
  \A i \in DOMAIN probes :
    (probes[i].step = "_handle_recaptcha_if_present"
     /\ probes[i].probe_error /\ ~probes[i].solve) =>
      probes[i].outcome # "raise"

AuthSucceeded == authRes.kind = "returned" /\ authRes.success

\* C34: login saves a session and returns a session id if and only if
\* authenticate reported success; when authentication fails or an error is
\* raised the session store is left unchanged; and the page is released
\* before the session is saved and before the response is returned.
C34_SessionSavedIffSuccess ==
  /\ sessions # {} => (AuthSucceeded /\ page.released)
  /\ (response.kind = "response" /\ page.acquired) => page.released
  /\ pc = "done" =>
       /\ response.session_id # 0 <=> sessions # {}
       /\ sessions # {} =>
            /\ response.success
            /\ sessions = {[session_id |-> response.session_id,
                            cookies |-> authRes.cookies,
                            oauth_tokens |-> authRes.tokens]}
       /\ (AuthSucceeded /\ response.success) => sessions # {}
       /\ (~AuthSucceeded \/ ~response.success) => sessions = {}
       /\ AuthSucceeded =>
            (response.success \/ response.message[1] = "Authentication error: ")

\* C20: every authentication attempt terminates: whatever the page and the
\* external solving services do, the attempt reaches its final response.
C20_AttemptTerminates == <>(pc = "done")



----------------------------------------------------------------------------
(* Token exchange (auth/oauth_helper.py) and the token set (models.py) *)

\* the main attempt is not running
MainIdle ==
  /\ req = [auth_mode |-> "", password |-> FALSE, client_id |-> FALSE,
            client_secret |-> FALSE, redirect_uri |-> FALSE, otp_code |-> FALSE]
  /\ strategy = "Slack"
  /\ pc = "idle"
  /\ page = NoPage
  /\ trace = <<>>
  /\ raised = {}
  /\ cookies = <<>>
  /\ authRes = Pending
  /\ response = NoResponse
  /\ sessions = {}
  /\ probes = <<>>

\* Optional[int]: None, or a number
None == [set |-> FALSE, value |-> 0]
Some(v) == [set |-> TRUE, value |-> v]

\* the arguments of exchange_slack_code_for_token: is each one non-empty
ExchangeArgs == [client_id : BOOLEAN, client_secret : BOOLEAN,
                 redirect_uri : BOOLEAN, code : BOOLEAN]

\* what the POST to oauth.v2.access comes back with: a transport failure,
\* or a JSON body with ok, access_token and expires_in
ExchangeReplies ==
  [kind : {"timeout", "http_error", "network_error"}, ok : {FALSE},
   access_token : {""}, expires_in : {None}]
  \cup
  [kind : {"json"}, ok : BOOLEAN, access_token : {"", "abc"},
   expires_in : {None} \cup {Some(n) : n \in 0..MaxExpiresIn}]

\* OAuthTokens built from the fields of the exchange result; the response
\* has no expires_at key, so the field keeps its default None
OAuthTokens(result) ==
  [access_token |-> result.access_token, expires_in |-> result.expires_in,
   expires_at |-> None]

NoOAuthTokens == [access_token |-> "", expires_in |-> None, expires_at |-> None]

\* a raise of TokenExchangeError after `posts` POSTs
ExchangeRaised(posts, msg) ==
  [kind |-> "raised", error |-> "TokenExchangeError", posts |-> posts, message |-> msg]

\* exchange_slack_code_for_token, had the parameters been checked only after
\* the POST
exchange_slack_code_for_token_PostsFirst(args, reply) ==
  IF ~(args.client_id /\ args.client_secret /\ args.redirect_uri /\ args.code)
  THEN ExchangeRaised(1, <<"Missing required parameters for token exchange">>)
  ELSE IF reply.kind # "json" \/ ~reply.ok \/ reply.access_token = ""
  THEN ExchangeRaised(1, <<"Slack token exchange failed: ">>)
  ELSE [kind |-> "returned", error |-> "", posts |-> 1, message |-> <<>>]

\* exchange_slack_code_for_token: the outcome of the call, with the error
\* type it raises and the number of POSTs it has issued. The raises inside
\* the try block are caught by `except Exception` and raised again as
\* TokenExchangeError
exchange_slack_code_for_token(args, reply) ==
  IF ~(args.client_id /\ args.client_secret /\ args.redirect_uri /\ args.code)
  THEN ExchangeRaised(0, <<"Missing required parameters for token exchange">>)
  ELSE IF reply.kind = "timeout"
  THEN ExchangeRaised(1, <<"Slack token exchange timed out after ">>)
  ELSE IF reply.kind = "http_error"
  THEN ExchangeRaised(1, <<"HTTP error ">>)
  ELSE IF reply.kind = "network_error"
  THEN ExchangeRaised(1, <<"Slack token exchange failed: ", "network">>)
  ELSE IF ~reply.ok
  THEN ExchangeRaised(1, <<"Slack token exchange failed: ", "Slack token exchange failed: ">>)
  ELSE IF reply.access_token = ""
  THEN ExchangeRaised(1, <<"Slack token exchange failed: ", "No access token in Slack response">>)
  ELSE [kind |-> "returned", error |-> "", posts |-> 1, message |-> <<>>]

TokenInit ==
  /\ MainIdle
  /\ loop = Idle /\ chain = Idle /\ bm = Idle /\ ExtIdle
  /\ exch \in [kind : {"exchange"}, pc : {"start"}, args : ExchangeArgs,
               reply : ExchangeReplies, now : {0}, issued_at : {0},
               outcome : {[kind |-> "pending", error |-> "", posts |-> 0, message |-> <<>>]},
               tokens : {NoOAuthTokens}, stored : {NoOAuthTokens},
               read : {NoOAuthTokens}]

\* the clock advances
ClockTick ==
  /\ exch.now < MaxClock
  /\ exch' = [exch EXCEPT !.now = @ + 1]
  /\ UNCHANGED <<mainVars, extVars, loop, chain, bm>>

\* the back-channel call is made and answered at instant exch.now
ExchangeCode ==
  /\ exch.pc = "start"
  /\ LET out == exchange_slack_code_for_token(exch.args, exch.reply) IN
       exch' = [exch EXCEPT
                  !.outcome = out,
                  !.issued_at = exch.now,
                  !.pc = IF out.kind = "returned" THEN "acquired" ELSE "failed",
                  !.tokens = IF out.kind = "returned" THEN OAuthTokens(exch.reply)
                             ELSE NoOAuthTokens]
  /\ UNCHANGED <<mainVars, extVars, loop, chain, bm>>

\* StorageAdapter.save_session keeps session.oauth_tokens.dict()
SaveTokens ==
  /\ exch.pc = "acquired"
  /\ exch' = [exch EXCEPT !.stored = exch.tokens, !.pc = "saved"]
  /\ UNCHANGED <<mainVars, extVars, loop, chain, bm>>

\* StorageAdapter.get_session rebuilds OAuthTokens(**oauth_data)
ReadTokens ==
  /\ exch.pc = "saved"
  /\ exch' = [exch EXCEPT !.read = exch.stored, !.pc = "read"]
  /\ UNCHANGED <<mainVars, extVars, loop, chain, bm>>

TokenNext == ClockTick \/ ExchangeCode \/ SaveTokens \/ ReadTokens

TokenSpec == TokenInit /\ [][TokenNext]_vars

\* C12: a token set acquired from an exchange response that carries
\* expires_in has expires_at = issuance time + expires_in, at acquisition
\* and after every later operation on it.
C12_ExpiresAtFromExpiresIn ==
  (exch.kind = "exchange" /\ exch.pc \in {"acquired", "saved", "read"}
     /\ exch.tokens.expires_in.set) =>
    /\ exch.tokens.expires_at = Some(exch.issued_at + exch.tokens.expires_in.value)
    /\ exch.pc \in {"saved", "read"} => exch.stored.expires_at = exch.tokens.expires_at
    /\ exch.pc = "read" => exch.read.expires_at = exch.tokens.expires_at


ExchangeCalled == exch.kind = "exchange" /\ exch.pc # "start"

MissingParameter ==
  ~(exch.args.client_id /\ exch.args.client_secret
    /\ exch.args.redirect_uri /\ exch.args.code)

\* C31: exchange_slack_code_for_token issues at most one POST per call; it
\* returns only when the response is 2xx with ok true and a non-empty
\* access_token; with a required parameter missing it raises
\* TokenExchangeError without a POST; on timeout, non-2xx status, ok false
\* or missing access_token it raises TokenExchangeError, and it raises no
\* other error type.
C31_SinglePostTypedErrors ==
  ExchangeCalled =>
    /\ exch.outcome.posts <= 1
    /\ exch.outcome.kind \in {"returned", "raised"}
    /\ exch.outcome.kind = "returned" =>
         /\ exch.reply.kind = "json" /\ exch.reply.ok
         /\ exch.reply.access_token # "" /\ exch.outcome.posts = 1
    /\ MissingParameter =>
         (exch.outcome.kind = "raised" /\ exch.outcome.posts = 0)
    /\ (exch.reply.kind \in {"timeout", "http_error"} \/ ~exch.reply.ok
        \/ exch.reply.access_token = "") => exch.outcome.kind = "raised"
    /\ exch.outcome.kind = "raised" => exch.outcome.error = "TokenExchangeError"

\* the call was made without a code, and the endpoint would have answered
\* with a token
C31_Witness ==
  /\ ExchangeCalled /\ ~exch.args.code /\ exch.args.client_id
  /\ exch.reply.kind = "json" /\ exch.reply.ok /\ exch.reply.access_token # ""
  /\ exch.outcome.kind = "raised" /\ exch.outcome.posts = 0


----------------------------------------------------------------------------
(* The polling loops of the solvers and handlers *)

\* range(120) of ManualCaptchaSolver.solve and ManualTwoFAHandler.handle_2fa
ManualCeiling == 120

LoopKinds == {"ManualCaptchaSolver.solve", "ManualTwoFAHandler.handle_2fa",
              "wait_for_captcha_completion", "wait_for_2fa_completion",
              "BrowserbaseCaptchaSolver.solve"}

\* the classes whose can_handle the wait_for_*_completion helpers consult
SolverClasses == {"BrowserbaseCaptchaSolver", "ManualCaptchaSolver", "NoopCaptchaSolver"}
HandlerClasses == {"PyOTPHandler", "ManualTwoFAHandler"}

\* the object a loop runs on
LoopSelf(k) ==
  CASE k = "ManualCaptchaSolver.solve" -> {"ManualCaptchaSolver"}
    [] k = "ManualTwoFAHandler.handle_2fa" -> {"ManualTwoFAHandler"}
    [] k = "wait_for_captcha_completion" -> SolverClasses
    [] k = "wait_for_2fa_completion" -> HandlerClasses
    [] k = "BrowserbaseCaptchaSolver.solve" -> {"BrowserbaseCaptchaSolver"}

\* the ceiling of a loop: the literal 120, or the timeout it is handed
LoopCeilings(k) ==
  IF k \in {"ManualCaptchaSolver.solve", "ManualTwoFAHandler.handle_2fa"}
  THEN {ManualCeiling} ELSE 0..MaxTimeout

\* what one poll tick observes on the page
\*   present:         a challenge / OTP prompt is on the page
\*   events_error:    reading window.browserbaseCaptchaEvents raised
\*   solving, solved, failed: the explicit signals of Browserbase
\*   image_visible:   the image-selection challenge is visible
\*   verify_disabled: the VERIFY button exists and is disabled
\*   present_later:   the challenge is still there after the 3 s wait
\*   image_later:     the image challenge is still visible at the last probe
Observations ==
  [present : BOOLEAN, events_error : BOOLEAN, solving : BOOLEAN, solved : BOOLEAN,
   failed : BOOLEAN, image_visible : BOOLEAN, verify_disabled : BOOLEAN,
   present_later : BOOLEAN, image_later : BOOLEAN]

\* the loops that look at the page only through can_handle see one thing
PlainObservations ==
  {o \in Observations :
     ~o.events_error /\ ~o.solving /\ ~o.solved /\ ~o.failed /\ ~o.image_visible
     /\ ~o.verify_disabled /\ o.present_later = o.present /\ ~o.image_later}

NoObservation ==
  [present |-> TRUE, events_error |-> FALSE, solving |-> FALSE, solved |-> FALSE,
   failed |-> FALSE, image_visible |-> FALSE, verify_disabled |-> FALSE,
   present_later |-> TRUE, image_later |-> FALSE]

\* can_handle of the class: NoopCaptchaSolver answers True whatever the page
\* shows, the others answer from the page (a probe error counts as absent)
can_handle(self, present) == IF self = "NoopCaptchaSolver" THEN TRUE ELSE present

\* one iteration of "for i in range(N): sleep; if not can_handle: return True"
PlainTick(self, o) == IF ~can_handle(self, o.present) THEN "absent" ELSE "continue"

\* one iteration of the loop of BrowserbaseCaptchaSolver.solve
\* (browserbase_solver.py:455-555); detected: image_challenge_detected
\* after this iteration's detection step
BrowserbaseTick(o, detected) ==
  IF ~o.events_error /\ o.solved THEN "solved"
  ELSE IF ~o.events_error /\ o.failed THEN "break"
  ELSE IF ~can_handle("BrowserbaseCaptchaSolver", o.present) THEN "absent"
  ELSE IF o.verify_disabled /\ ~can_handle("BrowserbaseCaptchaSolver", o.present_later)
       THEN "absent_after_verify"
  ELSE IF detected /\ ~o.image_later THEN "image_gone"
  ELSE "continue"

\* the outcomes of a tick that end the call with True
TrueSteps == {"solved", "absent", "absent_after_verify", "image_gone"}

PollInit ==
  /\ MainIdle
  /\ chain = Idle /\ bm = Idle /\ exch = Idle /\ ExtIdle
  /\ \E k \in LoopKinds : \E self \in LoopSelf(k) : \E n \in LoopCeilings(k) :
       loop = [kind |-> k, self |-> self, ceiling |-> n, pc |-> "entry", tick |-> 0,
               obs |-> NoObservation, image_challenge_detected |-> FALSE,
               left_by |-> "none", manual_attempted |-> FALSE,
               result |-> FALSE, reason |-> "none"]

\* the call ends with value r for the given reason
LoopReturns(r, why) ==
  loop' = [loop EXCEPT !.pc = "returned", !.result = r, !.reason = why]

\* the for loop is exhausted, or was left with break.  The solver and
\* handler loops log the timeout and return False; Browserbase's goes on to
\* its post-loop code, which logs the timeout
AfterLoop(l, how) ==
  IF l.kind = "BrowserbaseCaptchaSolver.solve"
  THEN [l EXCEPT !.pc = "after_loop", !.left_by = how]
  ELSE [l EXCEPT !.pc = "returned", !.left_by = how, !.result = FALSE, !.reason = "timeout"]

\* the code before the loop: ManualTwoFAHandler.handle_2fa returns True when
\* no prompt is there; BrowserbaseCaptchaSolver.solve tries playwright-captcha
\* and sets the page up, and any error there ends the call with False
LoopEntry ==
  /\ loop.kind \in LoopKinds /\ loop.pc = "entry"
  /\ \/ /\ loop.kind = "ManualTwoFAHandler.handle_2fa"
        /\ \E present \in BOOLEAN :
             IF ~can_handle(loop.self, present)
             THEN LoopReturns(TRUE, "no_prompt")
             ELSE loop' = [loop EXCEPT !.pc = "loop"]
     \/ /\ loop.kind = "BrowserbaseCaptchaSolver.solve"
        /\ \/ LoopReturns(TRUE, "playwright_captcha")
           \/ LoopReturns(FALSE, "error")
           \/ loop' = IF loop.ceiling = 0 THEN AfterLoop(loop, "exhausted")
                      ELSE [loop EXCEPT !.pc = "loop"]
     \/ /\ loop.kind \notin {"ManualTwoFAHandler.handle_2fa",
                              "BrowserbaseCaptchaSolver.solve"}
        /\ loop' = IF loop.ceiling = 0 THEN AfterLoop(loop, "exhausted")
                   ELSE [loop EXCEPT !.pc = "loop"]
  /\ UNCHANGED <<mainVars, extVars, chain, bm, exch>>

\* the loop after an iteration with outcome step
AfterTick(l, step) ==
  IF step \in TrueSteps
  THEN [l EXCEPT !.pc = "returned", !.result = TRUE, !.reason = step]
  ELSE IF step = "break" THEN AfterLoop(l, "break")
  ELSE IF l.tick = l.ceiling THEN AfterLoop(l, "exhausted")
  ELSE l

\* one poll tick of a loop that consults can_handle only
PollTick ==
  /\ loop.kind \in LoopKinds \ {"BrowserbaseCaptchaSolver.solve"}
  /\ loop.pc = "loop" /\ loop.tick < loop.ceiling
  /\ \E o \in PlainObservations :
       loop' = AfterTick([loop EXCEPT !.tick = @ + 1, !.obs = o],
                         PlainTick(loop.self, o))
  /\ UNCHANGED <<mainVars, extVars, chain, bm, exch>>

\* one poll tick of BrowserbaseCaptchaSolver.solve
BrowserbasePollTick ==
  /\ loop.kind = "BrowserbaseCaptchaSolver.solve"
  /\ loop.pc = "loop" /\ loop.tick < loop.ceiling
  /\ \E o \in Observations :
       LET detected == loop.image_challenge_detected \/ o.image_visible
           step == BrowserbaseTick(o, detected) IN
         loop' = AfterTick([loop EXCEPT !.tick = @ + 1, !.obs = o,
                                        !.image_challenge_detected = detected],
                           step)
  /\ UNCHANGED <<mainVars, extVars, chain, bm, exch>>

\* what _attempt_manual_image_solving finds on the page: a challenge text
\* element (visible, or the last selector's match), a target object named in
\* its text, image tiles, whether a tile at one of the chosen positions was
\* clicked, the VERIFY button (its probe or click can raise), and whether the
\* challenge is still detected after the click on VERIFY
ManualPages ==
  [challenge_found : BOOLEAN, target_known : BOOLEAN, tiles_found : BOOLEAN,
   clicked : BOOLEAN, verify : {"none", "disabled", "enabled", "raises"},
   present : BOOLEAN]

\* _attempt_manual_image_solving: without a challenge text element, a known
\* target or tiles it gives up at once; else it clicks tiles, and only then
\* looks for VERIFY: without an enabled button it returns False having
\* clicked; with one it clicks VERIFY and returns True exactly when the
\* challenge is gone afterwards.  manual_attempted: it acted on the challenge
attempt_manual_image_solving(l, pg) ==
  LET gives_up == [l EXCEPT !.pc = "returned", !.result = FALSE,
                            !.reason = "manual_fallback"] IN
    IF ~pg.challenge_found \/ ~pg.target_known \/ ~pg.tiles_found THEN gives_up
    ELSE IF pg.verify # "enabled"
    THEN [gives_up EXCEPT !.manual_attempted = pg.clicked]
    ELSE [gives_up EXCEPT
            !.manual_attempted = TRUE,
            !.obs = [NoObservation EXCEPT !.present = pg.present,
                                          !.present_later = pg.present],
            !.result = ~can_handle("BrowserbaseCaptchaSolver", pg.present)]

\* browserbase_solver.py:557-568: the timeout is logged; with
\* DEBUG_MANUAL_CAPTCHA the manual image solving decides, else False
BrowserbaseAfterLoop ==
  /\ loop.kind = "BrowserbaseCaptchaSolver.solve" /\ loop.pc = "after_loop"
  /\ \E debug_manual \in BOOLEAN :
       IF debug_manual
       THEN \E pg \in ManualPages :
              loop' = attempt_manual_image_solving(loop, pg)
       ELSE LoopReturns(FALSE, "timeout")
  /\ UNCHANGED <<mainVars, extVars, chain, bm, exch>>

PollNext == LoopEntry \/ PollTick \/ BrowserbasePollTick \/ BrowserbaseAfterLoop

PollSpec == PollInit /\ [][PollNext]_vars

\* the last executed tick found the challenge / prompt absent from the page
AbsentAtTick == loop.kind \in LoopKinds /\ loop.tick >= 1 /\ ~loop.obs.present

\* C13: in every polling loop, if the challenge or OTP prompt is absent from
\* the page at a poll tick, the call returns success at that very tick,
\* whatever explicit signals (solving, solved, failed) the tick observed.
C13_AbsenceIsSuccess ==
  AbsentAtTick => (loop.pc = "returned" /\ loop.result /\ loop.reason \in {"absent", "solved"})

\* the call has logged its timeout: it is past the loop
TimedOut == loop.kind \in LoopKinds /\ (loop.pc = "after_loop" \/ loop.reason = "timeout")

\* C14: a polling loop with ceiling N reports its timeout failure only after
\* exactly N poll ticks, and never runs more than N ticks.
C14_TimeoutAfterExactlyN ==
  /\ loop.kind \in LoopKinds => loop.tick <= loop.ceiling
  /\ TimedOut => loop.tick = loop.ceiling



\* the loop of BrowserbaseCaptchaSolver.solve was left on a failed signal
FailedSignalSeen ==
  loop.kind = "BrowserbaseCaptchaSolver.solve" /\ loop.left_by = "break"

\* C23: when the Browserbase solver observes the failed signal at a poll
\* tick, it polls no further, solve returns false, and no other solving
\* attempt is made on the challenge within the call.
C23_FailedSignalIsFinal ==
  (FailedSignalSeen /\ loop.pc = "returned") =>
    /\ ~loop.result
    /\ ~loop.manual_attempted

\* the last answer of can_handle before the call returned
DetectedAtReturn ==
  can_handle("BrowserbaseCaptchaSolver",
             IF loop.reason \in {"absent_after_verify", "image_gone"} /\ loop.obs.verify_disabled
             THEN loop.obs.present_later ELSE loop.obs.present)

\* C24: BrowserbaseCaptchaSolver.solve returns true only if the challenge is
\* no longer detected when it returns (can_handle is false) or a solver has
\* reported the challenge solved during the call.
C24_TrueOnlyIfAbsentOrSolved ==
  (loop.kind = "BrowserbaseCaptchaSolver.solve" /\ loop.pc = "returned" /\ loop.result) =>
    \/ loop.reason \in {"solved", "playwright_captcha"}
    \/ ~DetectedAtReturn

----------------------------------------------------------------------------
(* The solver and handler chains *)

\* self.priority of each class
BrowserbasePriority == 100
ManualPriority == 10
NoopPriority == 0
PyOTPPriority == 100
ManualTwoFAPriority == 10

\* CaptchaSolverFactory._solvers and TwoFAHandlerFactory._handlers: the class
\* registered for a name; "" when .get(name) finds none
Registry(factory, name) ==
  IF factory = "create_solver_chain"
  THEN CASE name = "browserbase" -> "BrowserbaseCaptchaSolver"
         [] name = "manual" -> "ManualCaptchaSolver"
         [] name = "noop" -> "NoopCaptchaSolver"
         [] OTHER -> ""
  ELSE CASE name = "pyotp" -> "PyOTPHandler"
         [] name = "manual" -> "ManualTwoFAHandler"
         [] OTHER -> ""

get_priority(cls) ==
  CASE cls = "BrowserbaseCaptchaSolver" -> BrowserbasePriority
    [] cls = "ManualCaptchaSolver" -> ManualPriority
    [] cls = "NoopCaptchaSolver" -> NoopPriority
    [] cls = "PyOTPHandler" -> PyOTPPriority
    [] cls = "ManualTwoFAHandler" -> ManualTwoFAPriority

\* the names a preference list may hold; "unknown" is no member of the enum
PreferenceNames(factory) ==
  IF factory = "create_solver_chain"
  THEN {"browserbase", "manual", "noop", "unknown"}
  ELSE {"pyotp", "manual", "unknown"}

PreferenceLists(factory) ==
  UNION {[1..n -> PreferenceNames(factory)] : n \in 0..MaxPrefs}

\* the constructors that can raise: BrowserbaseCaptchaSolver.__init__ makes
\* its debug directory
MayFailToConstruct(cls) == cls = "BrowserbaseCaptchaSolver"

\* the objects the factory's loop appends, in preference order; pos is the
\* place of the name in the preference list, failed the places whose
\* constructor raised
RECURSIVE Created(_, _, _, _)
Created(factory, prefs, failed, i) ==
  IF i > Len(prefs) THEN <<>>
  ELSE LET cls == Registry(factory, prefs[i]) IN
       (IF cls = "" \/ i \in failed THEN <<>>
        ELSE <<[cls |-> cls, priority |-> get_priority(cls), pos |-> i]>>)
       \o Created(factory, prefs, failed, i + 1)

\* x placed into a list sorted by descending key, before the first element
\* it must precede (an unstable variant places it before its equals)
RECURSIVE InsertDescending_BeforeEquals(_, _)
InsertDescending_BeforeEquals(sortedSeq, x) ==
  IF sortedSeq = <<>> THEN <<x>>
  ELSE IF Head(sortedSeq).priority <= x.priority THEN <<x>> \o sortedSeq
  ELSE <<Head(sortedSeq)>> \o InsertDescending_BeforeEquals(Tail(sortedSeq), x)

\* x placed into a list sorted by descending key, after its equals
RECURSIVE InsertDescending(_, _)
InsertDescending(sortedSeq, x) ==
  IF sortedSeq = <<>> THEN <<x>>
  ELSE IF Head(sortedSeq).priority < x.priority THEN <<x>> \o sortedSeq
  ELSE <<Head(sortedSeq)>> \o InsertDescending(Tail(sortedSeq), x)

\* sorted(objs, key=get_priority, reverse=True): descending and stable
RECURSIVE SortedByPriority(_, _)
SortedByPriority(objs, n) ==
  IF n = 0 THEN <<>>
  ELSE InsertDescending(SortedByPriority(objs, n - 1), objs[n])

ChainInit ==
  /\ MainIdle
  /\ loop = Idle /\ bm = Idle /\ exch = Idle /\ ExtIdle
  /\ \E factory \in {"create_solver_chain", "create_handler_chain"} :
     \E source \in {"argument", "settings"} :
     \E prefs \in PreferenceLists(factory) :
       chain = [kind |-> factory, source |-> source, prefs |-> prefs, pc |-> "entry",
                created |-> <<>>, result |-> <<>>]

\* the whole classmethod; failed: the places whose constructor raises
CreateChain(failed) ==
  LET objs == Created(chain.kind, chain.prefs, failed, 1) IN
    chain' = [chain EXCEPT !.pc = "returned", !.created = objs,
                           !.result = SortedByPriority(objs, Len(objs))]

create_solver_chain ==
  /\ chain.kind = "create_solver_chain" /\ chain.pc = "entry"
  /\ \E failed \in SUBSET {i \in DOMAIN chain.prefs :
                              MayFailToConstruct(Registry(chain.kind, chain.prefs[i]))} :
       CreateChain(failed)
  /\ UNCHANGED <<mainVars, extVars, loop, bm, exch>>

\* with no argument the list is read from settings.twofa_handler_preferences,
\* an attribute Settings does not define: AttributeError
create_handler_chain ==
  /\ chain.kind = "create_handler_chain" /\ chain.pc = "entry"
  /\ IF chain.source = "settings"
     THEN chain' = [chain EXCEPT !.pc = "raised"]
     ELSE CreateChain({})
  /\ UNCHANGED <<mainVars, extVars, loop, bm, exch>>

ChainNext == create_solver_chain \/ create_handler_chain

ChainSpec == ChainInit /\ [][ChainNext]_vars

ChainReturned == chain.kind \in {"create_solver_chain", "create_handler_chain"} /\ chain.pc = "returned"

\* C15: the chain a factory returns holds exactly the objects it created,
\* each once, a higher priority always before a lower one, and objects of
\* equal priority in the order of their names in the preference list.
C15_ChainOrdered ==
  ChainReturned =>
    LET r == chain.result IN
      /\ Len(r) = Len(chain.created)
      /\ {r[i] : i \in DOMAIN r} = {chain.created[i] : i \in DOMAIN chain.created}
      /\ \A i \in DOMAIN r : r[i].priority = get_priority(Registry(chain.kind, chain.prefs[r[i].pos]))
      /\ \A i, j \in DOMAIN r :
           i < j => \/ r[i].priority > r[j].priority
                    \/ (r[i].priority = r[j].priority /\ r[i].pos < r[j].pos)

\* a list with an unknown name, a repeated entry and a lower priority ahead
\* of a higher one has been sorted
C15_Witness ==
  /\ ChainReturned
  /\ chain.kind = "create_solver_chain"
  /\ chain.prefs = <<"manual", "unknown", "manual">>
  /\ Len(chain.result) = 2
  /\ chain.result[1].pos = 1 /\ chain.result[2].pos = 3



----------------------------------------------------------------------------
(* BrowserManager.get_page and the providers *)

\* the provider get_page works with: the provider_type argument, else
\* settings.browser_provider
SelectedProvider(provider_type, browser_provider) ==
  IF provider_type = "None"
  THEN (IF browser_provider = "browserbase" THEN "browserbase" ELSE "local")
  ELSE provider_type

\* where the setup of LocalBrowserProvider.get_page can raise
LocalFailures == {"none", "launch", "new_context", "add_init_script", "new_page"}

\* where BrowserbaseProvider() and its get_page can raise before the yield;
\* the constructor raises exactly when the API key is missing
BrowserbaseFailures(api_key) ==
  IF api_key THEN {"none", "session_create", "connect", "listeners"} ELSE {"constructor"}

\* the browsers and remote sessions of the call that are open
OpenInstances(b) ==
  (IF b.session = "open" THEN 1 ELSE 0)
  + (IF b.browser \in {"launched", "connected"} THEN 1 ELSE 0)

\* a browser or remote session has just been opened: the most that were
\* ever open together is kept
Opened(b) ==
  [b EXCEPT !.max_open = IF OpenInstances(b) > @ THEN OpenInstances(b) ELSE @]

\* LocalBrowserProvider.get_page up to its yield, or to the error fail
\* raises.  Its try/finally starts after the page exists
LocalSetup(b, fail) ==
  LET b1 == [b EXCEPT !.requested = Append(@, "local"), !.local_attempts = @ + 1,
                      !.local_fail = fail]
      b2 == Opened([b1 EXCEPT !.browser = IF b.ws_endpoint THEN "connected"
                                          ELSE "launched"]) IN
  CASE fail = "launch" -> b1
    [] fail = "new_context" -> b2
    [] fail \in {"add_init_script", "new_page"} -> [b2 EXCEPT !.context = "open"]
    [] fail = "none" ->
         [b2 EXCEPT !.context = "open", !.local_active = TRUE,
                    !.yields = Append(@, "local")]

\* the calls of the finally of LocalBrowserProvider.get_page that can raise;
\* browser.close() is called only without a websocket endpoint
TeardownFailures(b) ==
  IF b.ws_endpoint THEN {"none", "context.close"}
  ELSE {"none", "context.close", "browser.close"}

\* the finally of LocalBrowserProvider.get_page: context.close(), then
\* browser.close(), then the session leaves active_sessions; the call tf
\* raises and what follows it is skipped
LocalTeardown(b, tf) ==
  CASE tf = "context.close" -> b
    [] tf = "browser.close" -> [b EXCEPT !.context = "closed"]
    [] tf = "none" ->
         [b EXCEPT !.context = "closed",
                   !.browser = IF b.ws_endpoint THEN @ ELSE "closed",
                   !.local_active = FALSE]

\* the finally of BrowserbaseProvider.get_page: sessions.close is requested
\* and its error swallowed (closed = FALSE: the remote session stays open),
\* then the session leaves active_sessions
BrowserbaseTeardown(b, closed) ==
  [b EXCEPT !.session = IF closed THEN "closed" ELSE @, !.session_active = FALSE]

\* create_provider(BROWSERBASE) and BrowserbaseProvider.get_page up to its
\* yield, or to the error fail raises.  Its try/finally starts once the
\* session is registered
BrowserbaseSetup(b, fail, closed) ==
  LET b1 == [b EXCEPT !.requested = Append(@, "browserbase")]
      b2 == Opened([b1 EXCEPT !.session = "open", !.session_active = TRUE]) IN
  CASE fail \in {"constructor", "session_create"} -> b1
    [] fail \in {"connect", "listeners"} -> BrowserbaseTeardown(b2, closed)
    [] fail = "none" -> [b2 EXCEPT !.yields = Append(@, "browserbase")]

\* the generator stops at a yield: the page goes to the caller
Handed(b) == [b EXCEPT !.pc = "body", !.handed = Append(@, b.yields[Len(b.yields)])]

\* get_page ends by raising error
Raised(b, error) == [b EXCEPT !.pc = "exited", !.outcome = "raised", !.error = error]

\* a page yielded after the caller's body has run has no taker: the context
\* manager raises RuntimeError, and closes the generator (aclose), whose
\* teardown runs and whose error, if a call of it raises, takes the place of
\* the RuntimeError, or leaves it suspended, with the interpreter's version
NoTaker(l, aclose, tf) ==
  IF ~aclose THEN Raised([l EXCEPT !.suspended = TRUE], "RuntimeError")
  ELSE Raised(LocalTeardown(l, tf), IF tf = "none" THEN "RuntimeError" ELSE tf)

\* manager.py:90-112 once the first attempt raised: one attempt on the local
\* provider for Browserbase, the error re-raised otherwise.  entered: the
\* caller's body has run already
Fallback_NeverRetries(b, error, entered, fail, aclose, tf) == Raised(b, error)

Fallback_RetriesAlways(b, error, entered, fail, aclose, tf) ==
  LET l == LocalSetup(b, fail) IN
    IF fail # "none" THEN Raised(l, "local")
    ELSE IF ~entered THEN Handed(l)
    ELSE NoTaker(l, aclose, tf)

Fallback(b, error, entered, fail, aclose, tf) ==
  IF b.selected # "browserbase" THEN Raised(b, error)
  ELSE LET l == LocalSetup(b, fail) IN
    IF fail # "none" THEN Raised(l, "local")
    ELSE IF ~entered THEN Handed(l)
    ELSE NoTaker(l, aclose, tf)

BrowserInit ==
  /\ MainIdle
  /\ loop = Idle /\ chain = Idle /\ exch = Idle /\ ExtIdle
  /\ \E provider_type \in {"None", "local", "browserbase", "custom_cdp"} :
     \E browser_provider \in {"browserbase", "local"} :
     \E ws_endpoint \in BOOLEAN : \E api_key \in BOOLEAN :
       bm = [kind |-> "get_page", provider_type |-> provider_type,
             browser_provider |-> browser_provider,
             selected |-> SelectedProvider(provider_type, browser_provider),
             ws_endpoint |-> ws_endpoint, api_key |-> api_key,
             pc |-> "entry", requested |-> <<>>, local_attempts |-> 0,
             yields |-> <<>>, handed |-> <<>>, body_runs |-> 0,
             first_error |-> "none", local_fail |-> "unset",
             session |-> "none", session_active |-> FALSE,
             browser |-> "none", context |-> "none", local_active |-> FALSE,
             max_open |-> 0,
             suspended |-> FALSE, outcome |-> "pending", error |-> "none"]

\* entering "async with browser_manager.get_page(...)": up to the first
\* yield, or to the error get_page raises
GetPageEnter ==
  /\ bm.kind = "get_page" /\ bm.pc = "entry"
  /\ \E lf \in LocalFailures : \E bf \in BrowserbaseFailures(bm.api_key) :
     \E closed \in BOOLEAN :
       bm' =
         CASE bm.selected = "custom_cdp" ->
                Fallback([bm EXCEPT !.requested = Append(@, "custom_cdp")],
                         "ValueError", FALSE, lf, FALSE, "none")
           [] bm.selected = "local" ->
                LET l == LocalSetup(bm, lf) IN
                  IF lf = "none" THEN Handed(l)
                  ELSE Fallback(l, "local", FALSE, lf, FALSE, "none")
           [] bm.selected = "browserbase" ->
                LET r == BrowserbaseSetup(bm, bf, closed) IN
                  IF bf = "none" THEN Handed(r)
                  ELSE Fallback([r EXCEPT !.first_error = bf], "browserbase",
                                FALSE, lf, FALSE, "none")
  /\ UNCHANGED <<mainVars, extVars, loop, chain, exch>>

\* the provider whose page the caller's body works on
PageOf(b) == b.handed[Len(b.handed)]

\* the caller's body ends normally: both generators run to their end; an
\* error of the local teardown leaves get_page through its except clauses,
\* which re-raise it
BodyCompletes ==
  /\ bm.kind = "get_page" /\ bm.pc = "body"
  /\ \E tf \in TeardownFailures(bm) : \E closed \in BOOLEAN :
       LET ran == [bm EXCEPT !.body_runs = @ + 1]
           t == IF PageOf(bm) = "local" THEN LocalTeardown(ran, tf)
                ELSE BrowserbaseTeardown(ran, closed) IN
         bm' = IF PageOf(bm) = "local" /\ tf # "none" THEN Raised(t, tf)
               ELSE [t EXCEPT !.pc = "exited", !.outcome = "normal"]
  /\ UNCHANGED <<mainVars, extVars, loop, chain, exch>>

\* the caller's body raises: the error is thrown into the generators at
\* their yield.  The provider tears down and re-raises it; at the first
\* yield of get_page it lands in the except of manager.py:86, at the yield
\* of the fallback in the except of manager.py:108
BodyRaises ==
  /\ bm.kind = "get_page" /\ bm.pc = "body"
  /\ \E lf \in LocalFailures : \E aclose \in BOOLEAN :
     \E tf \in TeardownFailures(bm) : \E closed \in BOOLEAN :
       LET ran == [bm EXCEPT !.body_runs = @ + 1] IN
         bm' = IF PageOf(bm) = "browserbase"
               THEN Fallback([BrowserbaseTeardown(ran, closed) EXCEPT !.first_error = "body"],
                             "body", TRUE, lf, aclose, tf)
               ELSE Raised(LocalTeardown(ran, tf), IF tf = "none" THEN "body" ELSE tf)
  /\ UNCHANGED <<mainVars, extVars, loop, chain, exch>>

BrowserNext == GetPageEnter \/ BodyCompletes \/ BodyRaises

BrowserSpec == BrowserInit /\ [][BrowserNext]_vars



GetPageCalled == bm.kind = "get_page" /\ bm.pc # "entry"

\* Browserbase was selected and raised before it yielded a page
BrowserbaseFailedBeforeYield ==
  /\ GetPageCalled /\ bm.selected = "browserbase"
  /\ bm.first_error \in {"constructor", "session_create", "connect", "listeners"}

\* C17: when Browserbase is selected and creating the provider or acquiring
\* its page raises before a page was handed out, get_page goes to the local
\* provider for a page; when that provider sets its page up, get_page hands
\* exactly the local page to the caller, the body runs exactly once on it,
\* and the call ends as a direct local one does: normally when the body
\* completes, with the body's error when it raises, the local browser torn
\* down in both cases (or with the error of a close call of that teardown).
C17_FallbackHandsLocalPage ==
  BrowserbaseFailedBeforeYield =>
    /\ bm.local_fail # "unset" /\ bm.local_attempts = 1
    /\ bm.local_fail = "none" =>
         /\ bm.handed = <<"local">> /\ bm.yields = <<"local">>
         /\ bm.pc = "body" => bm.body_runs = 0
         /\ bm.pc = "exited" =>
              /\ bm.body_runs = 1
              /\ \/ bm.outcome = "normal"
                 \/ bm.outcome = "raised" /\ bm.error = "body"
                 \/ bm.outcome = "raised" /\ bm.error \in TeardownFailures(bm) \ {"none"}
              /\ bm.error \notin TeardownFailures(bm) =>
                   (bm.context = "closed" /\ ~bm.local_active)

\* the provider had no API key, the local page was handed out and the body
\* completed on it
C17_Witness ==
  /\ BrowserbaseFailedBeforeYield /\ bm.first_error = "constructor"
  /\ bm.handed = <<"local">> /\ bm.body_runs = 1
  /\ bm.pc = "exited" /\ bm.outcome = "normal"

\* the Browserbase provider failed, before or after its page was handed out
BrowserbaseFailed ==
  GetPageCalled /\ bm.selected = "browserbase" /\ bm.first_error # "none"

\* C18: within one get_page call a failure of the Browserbase provider, at
\* acquisition or at the use of its page, is followed by exactly one
\* acquisition attempt on the local provider; when the selected provider is
\* not Browserbase, or when the local attempt fails too, the error is
\* propagated to the caller; and no further provider is ever created.
C18_ExactlyOneFallback ==
  GetPageCalled =>
    /\ BrowserbaseFailed =>
         bm.local_attempts = 1 /\ bm.requested = <<"browserbase", "local">>
    /\ (bm.selected = "browserbase" /\ ~BrowserbaseFailed) =>
         bm.local_attempts = 0 /\ bm.requested = <<"browserbase">>
    /\ bm.selected # "browserbase" =>
         /\ bm.requested = <<bm.selected>>
         /\ bm.local_attempts = (IF bm.selected = "local" THEN 1 ELSE 0)
         /\ bm.local_fail \notin {"unset", "none"} =>
              bm.pc = "exited" /\ bm.outcome = "raised" /\ bm.error = "local"
         /\ bm.selected = "custom_cdp" =>
              bm.pc = "exited" /\ bm.outcome = "raised" /\ bm.error = "ValueError"
    /\ (BrowserbaseFailed /\ bm.local_fail # "none") =>
         bm.pc = "exited" /\ bm.outcome = "raised" /\ bm.error = "local"

\* Browserbase could not connect, and the local browser could not open its
\* page either
C18_Witness ==
  /\ BrowserbaseFailed /\ bm.first_error = "connect" /\ bm.local_fail = "new_page"
  /\ bm.local_attempts = 1 /\ bm.outcome = "raised"

\* C19: when get_page has exited, every browser and remote session a
\* provider created during the call is torn down: no context is open, no
\* launched browser is open, no remote session is open, and none is left in
\* active_sessions.
C19_TeardownOnEveryExit ==
  (bm.kind = "get_page" /\ bm.pc = "exited") =>
    /\ bm.context # "open" /\ bm.browser # "launched" /\ ~bm.local_active
    /\ bm.session # "open" /\ ~bm.session_active



\* C22: at every point of a get_page call at most one browser or remote
\* session acquired for it is open, and none were ever open together: the
\* local fallback browser opens only once the Browserbase session of the
\* call is closed.
C22_OneInstanceInFlight ==
  bm.kind = "get_page" =>
    /\ OpenInstances(bm) <= 1
    /\ bm.max_open <= 1
    /\ bm.browser # "none" => bm.session # "open"


\* the caller's body raised while it held a page
BodyRaisedOnPage ==
  /\ bm.kind = "get_page" /\ bm.pc = "exited"
  /\ bm.body_runs = 1 /\ bm.outcome = "raised"

\* C33: within one get_page call a page is handed to the caller at most
\* once; if the caller's body raises while it holds a page, from either
\* provider, that page's provider is torn down, no further provider is
\* created, no second page is acquired or handed out, and the caller
\* observes the error its own body raised.
C33_PageHandedAtMostOnce ==
  /\ bm.kind = "get_page" => Len(bm.handed) <= 1
  /\ BodyRaisedOnPage =>
       /\ bm.yields = bm.handed
       /\ bm.requested[Len(bm.requested)] = PageOf(bm)
       /\ bm.error = "body"
       /\ PageOf(bm) = "browserbase" => (bm.session = "closed" /\ bm.browser = "none")
       /\ PageOf(bm) = "local" => (bm.context = "closed" /\ ~bm.local_active)


----------------------------------------------------------------------------
(* Concurrent logins on the module-level BrowserManager *)

\* the logins that run at once
Logins == {1, 2}

\* the class create_provider instantiates for a provider type
ProviderClass(type) ==
  IF type = "browserbase" THEN "BrowserbaseProvider" ELSE "LocalBrowserProvider"

\* get_current_provider_type: the class name of _current_provider
get_current_provider_type(m) ==
  IF m.current_provider = 0 THEN "None" ELSE m.classes[m.current_provider]

\* self.factory.create_provider(type) by login a, followed by
\* self._current_provider = provider: a fresh instance, published on the
\* manager all logins share
CreateProvider(m, a, type) ==
  LET id == Len(m.classes) + 1 IN
    [m EXCEPT !.classes = Append(@, ProviderClass(type)),
              !.current_provider = id,
              !.writers = @ \cup {a},
              !.logins[a].provider = id]

\* the provider of login a is the Browserbase one
OnBrowserbase(m, a) == m.classes[m.logins[a].provider] = "BrowserbaseProvider"

ConcInit ==
  /\ MainIdle
  /\ loop = Idle /\ chain = Idle /\ bm = Idle /\ exch = Idle
  /\ otp = Idle /\ check = Idle /\ persist = Idle /\ store = Idle /\ variants = Idle
  /\ \E browser_provider \in {"browserbase", "local"} :
       mgr = [kind |-> "manager", browser_provider |-> browser_provider,
              current_provider |-> 0, classes |-> <<>>, writers |-> {},
              logins |-> [a \in Logins |-> [pc |-> "start", provider |-> 0, page |-> 0]]]

\* manager.py:61-76: the provider is created and published, then the login
\* waits for the provider's page
LoginCreatesProvider(a) ==
  /\ mgr.kind = "manager" /\ mgr.logins[a].pc = "start"
  /\ \E constructed \in BOOLEAN :
       LET type == SelectedProvider("None", mgr.browser_provider) IN
         \* LocalBrowserProvider() cannot raise; BrowserbaseProvider() raises
         \* without library or API key, and the fallback starts at once
         /\ type = "local" => constructed
         /\ mgr' = IF constructed
                    THEN [CreateProvider(mgr, a, type) EXCEPT !.logins[a].pc = "acquiring"]
                    ELSE [CreateProvider(mgr, a, "local")
                            EXCEPT !.logins[a].pc = "acquiring_fallback"]
  /\ UNCHANGED <<mainVars, loop, chain, bm, exch, otp, check, persist, store, variants>>

\* manager.py:76-96: the provider hands its page over and the body starts,
\* or it raises: for Browserbase the local provider is created and
\* published and the login waits for its page, else the error leaves
LoginAcquires(a) ==
  /\ mgr.kind = "manager" /\ mgr.logins[a].pc = "acquiring"
  /\ \E ok \in BOOLEAN :
       mgr' = IF ok
              THEN [mgr EXCEPT !.logins[a].pc = "body",
                               !.logins[a].page = mgr.logins[a].provider]
              ELSE IF OnBrowserbase(mgr, a)
              THEN [CreateProvider(mgr, a, "local") EXCEPT !.logins[a].pc = "acquiring_fallback"]
              ELSE [mgr EXCEPT !.logins[a].pc = "done"]
  /\ UNCHANGED <<mainVars, loop, chain, bm, exch, otp, check, persist, store, variants>>

\* manager.py:98-110: the fallback's page is handed over, or its error leaves
LoginFallbackAcquires(a) ==
  /\ mgr.kind = "manager" /\ mgr.logins[a].pc = "acquiring_fallback"
  /\ \E ok \in BOOLEAN :
       mgr' = IF ok
              THEN [mgr EXCEPT !.logins[a].pc = "body",
                               !.logins[a].page = mgr.logins[a].provider]
              ELSE [mgr EXCEPT !.logins[a].pc = "done"]
  /\ UNCHANGED <<mainVars, loop, chain, bm, exch, otp, check, persist, store, variants>>

\* the body (authenticate) ends.  When it raises on a Browserbase page the
\* except of manager.py:86 creates and publishes the local provider
LoginBodyEnds(a) ==
  /\ mgr.kind = "manager" /\ mgr.logins[a].pc = "body"
  /\ \E body_raises \in BOOLEAN :
       mgr' = IF body_raises /\ OnBrowserbase(mgr, a)
              THEN [CreateProvider(mgr, a, "local") EXCEPT !.logins[a].pc = "late_fallback"]
              ELSE [mgr EXCEPT !.logins[a].pc = "done"]
  /\ UNCHANGED <<mainVars, loop, chain, bm, exch, otp, check, persist, store, variants>>

\* the fallback entered after the body has ended has no taker for its page
LoginLateFallbackEnds(a) ==
  /\ mgr.kind = "manager" /\ mgr.logins[a].pc = "late_fallback"
  /\ mgr' = [mgr EXCEPT !.logins[a].pc = "done"]
  /\ UNCHANGED <<mainVars, loop, chain, bm, exch, otp, check, persist, store, variants>>

ConcNext ==
  \E a \in Logins :
    \/ LoginCreatesProvider(a)
    \/ LoginAcquires(a)
    \/ LoginFallbackAcquires(a)
    \/ LoginBodyEnds(a)
    \/ LoginLateFallbackEnds(a)

ConcSpec == ConcInit /\ [][ConcNext]_vars

\* C21: two logins running at once share no mutable state but the session
\* store: each has a provider instance and a page of its own, no field of
\* the manager is written by both, and while a login's body runs,
\* get_current_provider_type reports the class of the provider serving it.
C21_LoginsShareNothing ==
  mgr.kind = "manager" =>
    /\ \A a, b \in Logins :
         (a # b /\ mgr.logins[a].provider # 0) =>
           /\ mgr.logins[a].provider # mgr.logins[b].provider
           /\ mgr.logins[a].page # 0 => mgr.logins[a].page # mgr.logins[b].page
    /\ Cardinality(mgr.writers) <= 1
    /\ \A a \in Logins :
         mgr.logins[a].pc = "body" =>
           get_current_provider_type(mgr) = mgr.classes[mgr.logins[a].provider]



----------------------------------------------------------------------------
(* The OTP step: handle_2fa of the handlers and of the strategy *)

\* the objects with a handle_2fa(page, request)
TwoFAHandlers == {"PyOTPHandler", "ManualTwoFAHandler", "AuthStrategy"}

\* request.totp_secret: None or empty, a base32 secret, or a string pyotp
\* cannot decode
TotpSecrets == {"none", "valid", "malformed"}

\* handle_2fa ends: it returns r
OtpReturns(o, r) == [o EXCEPT !.pc = "returned", !.result = r]

\* handle_2fa ends in its except clause: the error is logged, False returned
OtpCaught(o) == [o EXCEPT !.pc = "returned", !.result = FALSE, !.caught = TRUE]

\* PyOTPHandler.handle_2fa, lines 75-100, had it looked at the secret first
pyotp_enter_SecretFirst(o, input_found, fill_ok) ==
  IF o.totp_secret = "none" THEN OtpReturns(o, FALSE)
  ELSE IF ~o.prompt THEN OtpReturns(o, TRUE)
  ELSE IF o.totp_secret = "malformed" THEN OtpCaught(o)
  ELSE LET derived == [o EXCEPT !.ops = <<"derive", "find_input">>] IN
    IF ~input_found THEN OtpReturns(derived, FALSE)
    ELSE IF ~fill_ok THEN OtpCaught(derived)
    ELSE [derived EXCEPT !.ops = Append(@, "fill"), !.pc = "filled"]

\* PyOTPHandler.handle_2fa, lines 75-100: no prompt, True; no secret, False;
\* then the code is derived, the input looked up and filled
pyotp_enter(o, input_found, fill_ok) ==
  IF ~o.prompt THEN OtpReturns(o, TRUE)
  ELSE IF o.totp_secret = "none" THEN OtpReturns(o, FALSE)
  ELSE IF o.totp_secret = "malformed" THEN OtpCaught(o)
  ELSE LET derived == [o EXCEPT !.ops = <<"derive", "find_input">>] IN
    IF ~input_found THEN OtpReturns(derived, FALSE)
    ELSE IF ~fill_ok THEN OtpCaught(derived)
    ELSE [derived EXCEPT !.ops = Append(@, "fill"), !.pc = "filled"]

\* lines 109-115, had the re-check been left out
pyotp_recheck_Skipped(present) == TRUE

\* lines 109-115: the result of the re-check of the prompt
pyotp_recheck(present) == ~present

OtpInit ==
  /\ MainIdle
  /\ loop = Idle /\ chain = Idle /\ bm = Idle /\ exch = Idle
  /\ mgr = Idle /\ check = Idle /\ persist = Idle /\ store = Idle /\ variants = Idle
  /\ \E h \in TwoFAHandlers : \E secret \in TotpSecrets :
     \E code \in BOOLEAN : \E prompt \in BOOLEAN :
       otp = [kind |-> "handle_2fa", handler |-> h, totp_secret |-> secret,
              otp_code |-> code, prompt |-> prompt, pc |-> "entry", ops |-> <<>>,
              ticks |-> 0, present |-> prompt, input_found |-> FALSE,
              caught |-> FALSE, result |-> FALSE]

\* PyOTPHandler.handle_2fa up to the filled input
PyOTPEnters ==
  /\ otp.kind = "handle_2fa" /\ otp.handler = "PyOTPHandler" /\ otp.pc = "entry"
  /\ \E input_found \in BOOLEAN : \E fill_ok \in BOOLEAN :
       otp' = pyotp_enter([otp EXCEPT !.input_found = input_found], input_found, fill_ok)
  /\ UNCHANGED <<mainVars, loop, chain, bm, exch, mgr, check, persist, store, variants>>

\* _submit_2fa_form: a button is clicked or Enter pressed; its errors are
\* swallowed inside
PyOTPSubmits ==
  /\ otp.kind = "handle_2fa" /\ otp.handler = "PyOTPHandler" /\ otp.pc = "filled"
  /\ otp' = [otp EXCEPT !.ops = Append(@, "submit"), !.pc = "submitted"]
  /\ UNCHANGED <<mainVars, loop, chain, bm, exch, mgr, check, persist, store, variants>>

\* lines 106-119: the wait of 3 s, then the re-check of the prompt
PyOTPRechecks ==
  /\ otp.kind = "handle_2fa" /\ otp.handler = "PyOTPHandler" /\ otp.pc = "submitted"
  /\ \E wait_ok \in BOOLEAN : \E present \in BOOLEAN :
       otp' = IF ~wait_ok THEN OtpCaught(otp)
              ELSE OtpReturns([otp EXCEPT !.ops = @ \o <<"wait", "recheck">>,
                                          !.present = present],
                              pyotp_recheck(present))
  /\ UNCHANGED <<mainVars, loop, chain, bm, exch, mgr, check, persist, store, variants>>

\* ManualTwoFAHandler.handle_2fa, lines 70-75
ManualEnters ==
  /\ otp.kind = "handle_2fa" /\ otp.handler = "ManualTwoFAHandler" /\ otp.pc = "entry"
  /\ otp' = IF ~otp.prompt THEN OtpReturns(otp, TRUE) ELSE [otp EXCEPT !.pc = "polling"]
  /\ UNCHANGED <<mainVars, loop, chain, bm, exch, mgr, check, persist, store, variants>>

\* one iteration of its loop, lines 78-94
ManualPolls ==
  /\ otp.kind = "handle_2fa" /\ otp.handler = "ManualTwoFAHandler" /\ otp.pc = "polling"
  /\ otp.ticks < ManualCeiling
  /\ \E present \in BOOLEAN :
       LET o == [otp EXCEPT !.ticks = @ + 1, !.present = present] IN
         otp' = IF ~present THEN OtpReturns(o, TRUE)
                ELSE IF o.ticks = ManualCeiling THEN OtpReturns(o, FALSE)
                ELSE o
  /\ UNCHANGED <<mainVars, loop, chain, bm, exch, mgr, check, persist, store, variants>>

\* AuthStrategy.handle_2fa, the OTP phase of authenticate: True, whatever
\* the page shows and the request carries
StrategyHandles2FA ==
  /\ otp.kind = "handle_2fa" /\ otp.handler = "AuthStrategy" /\ otp.pc = "entry"
  /\ otp' = OtpReturns(otp, handle_2fa(page, req))
  /\ UNCHANGED <<mainVars, loop, chain, bm, exch, mgr, check, persist, store, variants>>

OtpNext ==
  \/ PyOTPEnters \/ PyOTPSubmits \/ PyOTPRechecks
  \/ ManualEnters \/ ManualPolls
  \/ StrategyHandles2FA

OtpSpec == OtpInit /\ [][OtpNext]_vars

OtpEntered == otp.kind = "handle_2fa" /\ otp.pc # "entry"

\* C25: if no OTP prompt is detected when handle_2fa is entered, every
\* handler returns true at once, whatever secret or code the request
\* carries: no code is derived, no field filled, no form submitted, no poll
\* tick waited.
C25_NoPromptPassThrough ==
  (OtpEntered /\ ~otp.prompt) =>
    /\ otp.pc = "returned" /\ otp.result
    /\ otp.ops = <<>> /\ otp.ticks = 0 /\ ~otp.caught

\* the secret-derived handler was called with a secret and a literal code in
\* the request on a page without prompt
C25_Witness ==
  /\ OtpEntered /\ ~otp.prompt /\ otp.handler = "PyOTPHandler"
  /\ otp.totp_secret = "valid" /\ otp.otp_code /\ otp.result

\* the steps of PyOTPHandler.handle_2fa after the prompt was detected
PyOTPSteps == <<"derive", "find_input", "fill", "submit", "wait", "recheck">>

PyOTPOnPrompt ==
  otp.kind = "handle_2fa" /\ otp.handler = "PyOTPHandler" /\ otp.prompt

\* C26: with a prompt present, PyOTPHandler.handle_2fa takes its steps in the
\* order derive, fill, submit, re-check; it returns true exactly when the
\* re-check was reached and found the prompt absent; without a secret, or
\* without an input field, it returns false and has neither filled nor
\* submitted; with a secret, an input field and no error on the way it goes
\* through all the steps; and no error leaves it.
C26_SecretDerivedHandler ==
  PyOTPOnPrompt =>
    /\ Len(otp.ops) <= Len(PyOTPSteps)
    /\ otp.ops = SubSeq(PyOTPSteps, 1, Len(otp.ops))
    /\ otp.pc = "returned" =>
         /\ otp.result <=> (otp.ops = PyOTPSteps /\ ~otp.present)
         /\ (otp.totp_secret = "none" \/ ~otp.input_found) =>
              (~otp.result /\ otp.ops \in {<<>>, <<"derive", "find_input">>})
         /\ otp.totp_secret = "none" => otp.ops = <<>>
         /\ (otp.totp_secret = "valid" /\ otp.input_found /\ ~otp.caught) =>
              otp.ops = PyOTPSteps

\* the code was derived, filled and submitted, and the prompt was gone
C26_Witness ==
  /\ PyOTPOnPrompt /\ otp.pc = "returned" /\ otp.result
  /\ otp.ops = PyOTPSteps /\ ~otp.present

\* C27: when a prompt is present and the request has no secret, the OTP
\* phase is resolved by the manual strategy: the prompt is polled, up to 120
\* ticks, and the phase fails only if the prompt is still there after them.
C27_ManualResolvesWithoutSecret ==
  (OtpEntered /\ otp.handler = "AuthStrategy" /\ otp.prompt
   /\ otp.totp_secret = "none" /\ otp.pc = "returned") =>
    /\ otp.ticks >= 1 /\ otp.ticks <= ManualCeiling
    /\ otp.result => ~otp.present
    /\ ~otp.result => (otp.ticks = ManualCeiling /\ otp.present)

\* ---------------------------------------------------------------------
\* The success check and the cookie extraction of a strategy, one call at a
\* time. A string is a sequence of pieces that concatenate without a
\* separator: "notslack.com" is <<"not", "slack", ".", "com">>.

\* needle in hay
Contains(hay, needle) ==
  \E i \in 0..(Len(hay) - Len(needle)) :
    SubSeq(hay, i + 1, i + Len(needle)) = needle

\* str.lower()
Lower(s) ==
  [i \in DOMAIN s |-> IF s[i] = "SID" THEN "sid" ELSE s[i]]

\* the classes whose is_success is evaluated
CheckedClasses ==
  {"SlackAuthStrategy", "GoogleAuthStrategy", "GitHubAuthStrategy",
   "Microsoft365AuthStrategy", "SalesforceAuthStrategy", "NotionAuthStrategy",
   "AtlassianAuthStrategy", "OktaAuthStrategy", "AuthStrategy"}

\* the providers whose is_success ends with super().is_success(page)
FallsBackToBase ==
  {"Microsoft365AuthStrategy", "NotionAuthStrategy", "AtlassianAuthStrategy",
   "OktaAuthStrategy"}

\* the success_indicators list of the class, by the kind of each lambda: a
\* test of page.url, page.query_selector(..), page.get_by_text(..).is_visible()
SuccessIndicators(cls) ==
  CASE cls = "SlackAuthStrategy" ->
         <<"url", "selector", "selector", "selector", "text", "text">>
    [] cls \in {"GoogleAuthStrategy", "GitHubAuthStrategy"} ->
         <<"url", "selector", "selector", "selector", "text">>
    [] cls \in FallsBackToBase -> <<"url", "selector", "selector", "text">>
    [] OTHER -> <<>>

\* the value of the first lambda of the list, the test of page.url; for
\* SalesforceAuthStrategy the test that is the whole of its is_success
UrlPattern(cls, url) ==
  CASE cls = "SlackAuthStrategy" ->
         Contains(url, <<"slack", ".", "com">>) /\ Contains(url, <<"/", "messages">>)
    [] cls = "GoogleAuthStrategy" ->
         Contains(url, <<"myaccount", ".", "google", ".", "com">>)
    [] cls = "GitHubAuthStrategy" ->
         Contains(url, <<"github", ".", "com">>) /\ Contains(url, <<"/", "dashboard">>)
    [] cls = "Microsoft365AuthStrategy" ->
         \/ Contains(url, <<"office", ".", "com">>)
         \/ Contains(url, <<"portal", ".", "office", ".", "com">>)
    [] cls = "SalesforceAuthStrategy" ->
         Contains(url, <<"salesforce", ".", "com">>)
    [] cls = "NotionAuthStrategy" ->
         Contains(url, <<"notion", ".", "so">>) /\ ~Contains(url, <<"login">>)
    [] cls = "AtlassianAuthStrategy" ->
         Contains(url, <<"atlassian", ".", "com">>) /\ ~Contains(url, <<"login">>)
    [] cls = "OktaAuthStrategy" ->
         Contains(url, <<"okta", ".", "com">>) /\ ~Contains(url, <<"login">>)
    [] OTHER -> FALSE

\* `result = await indicator()` and `if result`: the first lambda returns a
\* bool, which cannot be awaited: TypeError, whatever the bool is; the others
\* return the coroutine of a probe of the page
AwaitIndicator(cls, i, url, probe) ==
  IF SuccessIndicators(cls)[i] = "url"
  THEN "error"
  ELSE probe[i]

\* after the loop over the indicators: the Slack, Google and GitHub
\* strategies return False, the others return super().is_success(page)
AfterIndicators(c) ==
  IF c.cls \in FallsBackToBase
  THEN [c EXCEPT !.pc = "generic"]
  ELSE [c EXCEPT !.pc = "returned", !.result = FALSE]

\* the error_selectors of AuthStrategy.is_success
ErrorSelectors ==
  <<"text=Invalid credentials", "text=Login failed",
    "text=Incorrect email or password", ".error", ".alert-error">>

\* AuthStrategy.is_success: False at the first error indicator that is
\* visible, a probe that raises is skipped, True after the list
generic_is_success(errors) ==
  ~\E k \in DOMAIN ErrorSelectors : errors[k] = "visible"

ProbeOutcomes == {"match", "miss", "error"}
ErrorOutcomes == {"visible", "hidden", "error"}

\* page.url at the check
PageUrls ==
  { <<"https:", "//", "app", ".", "slack", ".", "com", "/", "messages">>,
    <<"https:", "//", "slack", ".", "com", "/", "signin">>,
    <<"https:", "//", "dev", ".", "okta", ".", "com", "/", "home">>,
    <<"https:", "//", "dev", ".", "okta", ".", "com", "/", "login">>,
    <<"https:", "//", "myaccount", ".", "google", ".", "com", "/">>,
    <<"https:", "//", "github", ".", "com", "/", "dashboard">>,
    <<"https:", "//", "portal", ".", "office", ".", "com", "/">>,
    <<"https:", "//", "login", ".", "salesforce", ".", "com", "/">>,
    <<"https:", "//", "www", ".", "notion", ".", "so", "/", "home">>,
    <<"https:", "//", "id", ".", "atlassian", ".", "com", "/", "login">>,
    <<"about:blank">> }

\* where is_success of the class starts: at its list of indicators, at its
\* one test of page.url, or at the generic scan
Entry(cls) ==
  CASE cls = "SalesforceAuthStrategy" -> "url_test"
    [] SuccessIndicators(cls) = <<>> -> "generic"
    [] OTHER -> "indicators"

\* page.url.split("//")[1].split("/")[0]
current_domain(url) ==
  LET seps == {i \in DOMAIN url : url[i] = "//"} IN
  IF seps = {} THEN <<"IndexError">>
  ELSE LET a == CHOOSE i \in seps : \A j \in seps : i <= j
           ends == {i \in DOMAIN url : i > a /\ url[i] \in {"/", "//"}}
           b == IF ends = {} THEN Len(url) + 1
                ELSE CHOOSE i \in ends : \A j \in ends : i <= j
       IN SubSeq(url, a + 1, b - 1)

\* the keywords of the allow-list
SessionKeywords == {<<"session">>, <<"auth">>, <<"token">>, <<"sid">>}

\* any(keyword in cookie["name"].lower() for keyword in [...])
LooksLikeSession(c) ==
  \E keyword \in SessionKeywords : Contains(Lower(c.name), keyword)

\* SessionCookie(name=.., value=.., domain=.., path=cookie.get("path", "/"),
\* secure=cookie.get("secure", False), http_only=cookie.get("httpOnly", False))
SessionCookie(c) ==
  [name |-> c.name, value |-> c.value, domain |-> c.domain,
   path |-> "/", secure |-> FALSE, http_only |-> FALSE]

\* AuthStrategy.extract_cookies
extract_cookies(url, browser_cookies) ==
  LET session_cookies == SelectSeq(browser_cookies, LooksLikeSession)
      InDomain(c) == Contains(c.domain, current_domain(url))
      from_domain == SelectSeq(browser_cookies, InDomain)
      Made(cs) == [i \in DOMAIN cs |-> SessionCookie(cs[i])]
  IN IF session_cookies # <<>>
     THEN [pc |-> "returned", result |-> Made(session_cookies)]
     ELSE IF current_domain(url) = <<"IndexError">>
     THEN [pc |-> "raised", result |-> <<>>]
     ELSE [pc |-> "returned", result |-> Made(from_domain)]

\* the cookies of the browser context
MaxBrowserCookies == 2

CookieNames == {<<"d">>, <<"x", "session">>, <<"SID">>}
CookieDomains ==
  { <<"slack", ".", "com">>, <<".", "slack", ".", "com">>,
    <<"not", "slack", ".", "com">>, <<"okta", ".", "com">> }
CookieValues == {"v1", "v2"}
BrowserCookies == [name : CookieNames, value : CookieValues, domain : CookieDomains]

CheckInit ==
  /\ MainIdle
  /\ loop = Idle /\ chain = Idle /\ bm = Idle /\ exch = Idle
  /\ mgr = Idle /\ otp = Idle /\ persist = Idle /\ store = Idle /\ variants = Idle
  /\ \/ \E cls \in CheckedClasses : \E url \in PageUrls :
        \E probe \in [DOMAIN SuccessIndicators(cls) -> ProbeOutcomes] :
        \E errors \in [DOMAIN ErrorSelectors -> ErrorOutcomes] :
          /\ \A i \in DOMAIN probe :
               SuccessIndicators(cls)[i] = "url" => probe[i] = "miss"
          \* only the generic scan probes the error selectors: one
          \* outcome for all of them is enough where it is never reached
          /\ cls \notin FallsBackToBase \cup {"AuthStrategy"} =>
               \A k \in DOMAIN errors : errors[k] = errors[1]
          /\ check = [kind |-> "is_success", cls |-> cls, url |-> url,
                      probe |-> probe, errors |-> errors,
                      pc |-> Entry(cls),
                      evaluated |-> <<>>, scanned |-> FALSE, result |-> FALSE]
     \/ \E url \in PageUrls : \E n \in 0..MaxBrowserCookies :
        \E bc \in [1..n -> BrowserCookies] :
          check = [kind |-> "extract_cookies", url |-> url,
                   browser_cookies |-> bc, pc |-> "entry", result |-> <<>>]

\* one turn of the loop over success_indicators
EvaluateIndicator ==
  /\ check.kind = "is_success" /\ check.pc = "indicators"
  /\ LET i == Len(check.evaluated) + 1
         c == [check EXCEPT !.evaluated = Append(@, i)] IN
       check' =
         IF AwaitIndicator(check.cls, i, check.url, check.probe) = "match"
         THEN [c EXCEPT !.pc = "returned", !.result = TRUE]
         ELSE IF i < Len(SuccessIndicators(check.cls)) THEN c
         ELSE AfterIndicators(c)
  /\ UNCHANGED <<mainVars, loop, chain, bm, exch, mgr, otp, persist, store, variants>>

\* SalesforceAuthStrategy.is_success: `"salesforce.com" in page.url`
UrlTest ==
  /\ check.kind = "is_success" /\ check.pc = "url_test"
  /\ check' = [check EXCEPT !.pc = "returned",
                            !.result = UrlPattern(check.cls, check.url)]
  /\ UNCHANGED <<mainVars, loop, chain, bm, exch, mgr, otp, persist, store, variants>>

\* AuthStrategy.is_success, called directly or through super()
GenericScan ==
  /\ check.kind = "is_success" /\ check.pc = "generic"
  /\ check' = [check EXCEPT !.pc = "returned", !.scanned = TRUE,
                            !.result = generic_is_success(check.errors)]
  /\ UNCHANGED <<mainVars, loop, chain, bm, exch, mgr, otp, persist, store, variants>>

\* one call of AuthStrategy.extract_cookies
ExtractsCookies ==
  /\ check.kind = "extract_cookies" /\ check.pc = "entry"
  /\ LET r == extract_cookies(check.url, check.browser_cookies) IN
       check' = [check EXCEPT !.pc = r.pc, !.result = r.result]
  /\ UNCHANGED <<mainVars, loop, chain, bm, exch, mgr, otp, persist, store, variants>>

CheckNext == EvaluateIndicator \/ UrlTest \/ GenericScan \/ ExtractsCookies

CheckSpec == CheckInit /\ [][CheckNext]_vars

SuccessChecked == check.kind = "is_success" /\ check.pc = "returned"

\* indicator i of the class holds of the page
IndicatorMatches(i) ==
  IF SuccessIndicators(check.cls)[i] = "url"
  THEN UrlPattern(check.cls, check.url)
  ELSE check.probe[i] = "match"

\* C28: is_success of every strategy evaluates its success indicators in
\* list order and returns true at the first one that matches; if none
\* matches, its result is that of the generic error scan: false if a generic
\* error indicator is visible, true otherwise.
C28_FirstMatchElseGenericScan ==
  SuccessChecked =>
    LET n == Len(SuccessIndicators(check.cls))
        matching == {i \in 1..n : IndicatorMatches(i)} IN
      IF matching # {}
      THEN /\ check.result
           /\ check.evaluated =
                [j \in 1..(CHOOSE i \in matching : \A k \in matching : i <= k) |-> j]
      ELSE /\ check.evaluated = [j \in 1..n |-> j]
           /\ check.result = generic_is_success(check.errors)

\* C29: if the page URL matches the post-login URL pattern of the provider
\* at the success check, is_success returns true, whatever the other
\* indicators evaluate to.
C29_UrlPatternIsSuccess ==
  (SuccessChecked /\ UrlPattern(check.cls, check.url)) => check.result

\* the cookie's domain is the host of the page or a parent domain of it
BelongsToDomain(c, host) ==
  LET dom == IF c.domain[1] = "." THEN Tail(c.domain) ELSE c.domain IN
    \/ host = dom
    \/ /\ Len(host) > Len(dom)
       /\ SubSeq(host, Len(host) - Len(dom), Len(host)) = <<".">> \o dom

\* C30: AuthStrategy.extract_cookies returns exactly the browser cookies
\* whose name contains an allow-list keyword when there is one; otherwise
\* exactly the browser cookies that belong to the current domain of the
\* page; the two selections are never mixed, and every returned cookie is a
\* browser cookie with its name, value and domain unchanged.
C30_AllowListElseCurrentDomain ==
  (check.kind = "extract_cookies" /\ check.pc = "returned") =>
    LET bc == check.browser_cookies
        OfDomain(c) == BelongsToDomain(c, current_domain(check.url))
        allowed == SelectSeq(bc, LooksLikeSession)
        chosen == IF allowed # <<>> THEN allowed ELSE SelectSeq(bc, OfDomain) IN
      /\ Len(check.result) = Len(chosen)
      /\ \A i \in DOMAIN chosen :
           /\ check.result[i].name = chosen[i].name
           /\ check.result[i].value = chosen[i].value
           /\ check.result[i].domain = chosen[i].domain

----------------------------------------------------------------------------
(* Persistent browser sessions: create_session and close_session of the
   providers, called directly or through the BrowserManager *)

\* the close calls made on one session id
MaxCloses == 2

\* create_session raised error
CreateRaised(error) ==
  [pc |-> "raised", error |-> error, open |-> FALSE, registered |-> FALSE]

\* LocalBrowserProvider.create_session: "async with self.get_page(**kwargs)
\* as page: return str(id(page))".  The return leaves the block, so the
\* finally of get_page has closed the context, closed the browser unless
\* settings.browser_ws_endpoint is set, and popped the id from
\* active_sessions when the caller gets the id.  A close call of that finally
\* that raises (tf) replaces the return: the browser stays open and the id
\* stays in active_sessions
local_create_session(fail, tf, ws_endpoint) ==
  IF fail # "none" THEN CreateRaised(fail)
  ELSE IF tf = "context.close" \/ (tf = "browser.close" /\ ~ws_endpoint)
  THEN [pc |-> "raised", error |-> tf, open |-> TRUE, registered |-> TRUE]
  ELSE [pc |-> "created", error |-> "none", open |-> ws_endpoint,
        registered |-> FALSE]

\* BrowserbaseProvider.create_session: sessions.create, then the id is put
\* into active_sessions
browserbase_create_session(fail) ==
  IF fail # "none" THEN CreateRaised(fail)
  ELSE [pc |-> "created", error |-> "none", open |-> TRUE, registered |-> TRUE]

\* close_session of either provider, up to its await: the id is looked up in
\* the active_sessions of the instance (known); an unknown id is answered
\* with False at once, else the close call is awaited
close_session_enter(p, known) ==
  [p EXCEPT !.calls = Append(@, IF known
                                THEN [pc |-> "closing", failed |-> FALSE, result |-> FALSE]
                                ELSE [pc |-> "returned", failed |-> FALSE, result |-> FALSE])]

\* the awaited call of close_session i, sessions.close or browser.close,
\* ends: by a value, and the session is closed, or by an error
close_call_ends(p, i, close_ok) ==
  IF close_ok THEN [p EXCEPT !.calls[i].pc = "closed", !.open = FALSE]
  ELSE [p EXCEPT !.calls[i].pc = "closed", !.calls[i].failed = TRUE]

\* close_session i goes on after its await: the id is removed from
\* active_sessions and True returned; the error of the close call, or the
\* KeyError of the removal when the id is gone by now, is caught and
\* answered with False
close_session_return(p, i) ==
  IF p.calls[i].failed \/ ~p.registered
  THEN [p EXCEPT !.calls[i].pc = "returned"]
  ELSE [p EXCEPT !.calls[i].pc = "returned", !.calls[i].result = TRUE,
                 !.registered = FALSE]

\* the body of LocalBrowserProvider.get_page ends: its finally runs up to
\* the await of context.close (local_browser.py:103-104)
finally_enter(p) == [p EXCEPT !.finally = "context.close", !.answered = "no"]

\* the close call the finally awaits ends, by a value or by an error; the
\* browser is closed once browser.close has ended by a value
finally_call_ends(p, close_ok) ==
  IF ~close_ok THEN [p EXCEPT !.answered = "error"]
  ELSE [p EXCEPT !.answered = "value",
                 !.open = IF p.finally = "browser.close" THEN FALSE ELSE @]

\* the event loop resumes the finally after its await: an error leaves
\* get_page with what follows skipped; after context.close comes the await
\* of browser.close, unless settings.browser_ws_endpoint is set; then
\* active_sessions.pop(session_id, None) (local_browser.py:105-107)
finally_resume(p) ==
  IF p.answered = "error"
  THEN [p EXCEPT !.pc = "page_left", !.error = p.finally, !.finally = "none"]
  ELSE IF p.finally = "context.close" /\ ~p.ws_endpoint
  THEN [p EXCEPT !.finally = "browser.close", !.answered = "no"]
  ELSE [p EXCEPT !.pc = "page_left", !.finally = "none", !.registered = FALSE]

PersistInit ==
  /\ MainIdle
  /\ loop = Idle /\ chain = Idle /\ bm = Idle /\ exch = Idle
  /\ mgr = Idle /\ otp = Idle /\ check = Idle /\ store = Idle /\ variants = Idle
  /\ \E via \in {"provider", "manager"} :
     \E provider_type \in {"None", "local", "browserbase", "custom_cdp"} :
     \E browser_provider \in {"browserbase", "local"} : \E api_key \in BOOLEAN :
     \E ws_endpoint \in BOOLEAN :
       \* a provider called directly is an instance that exists
       /\ via = "provider" =>
            /\ provider_type \in {"local", "browserbase"}
            /\ provider_type = "browserbase" => api_key
       /\ LET start(provider, at, in_page) ==
                 [kind |-> "persistent", via |-> via,
                  provider_type |-> provider_type,
                  browser_provider |-> browser_provider,
                  selected |-> provider,
                  api_key |-> api_key, ws_endpoint |-> ws_endpoint,
                  pc |-> at, error |-> "none",
                  finally |-> "none", answered |-> "no",
                  open |-> in_page, registered |-> in_page,
                  open_at_return |-> FALSE, registered_at_return |-> FALSE,
                  calls |-> <<>>]
          IN \/ persist = start(SelectedProvider(provider_type, browser_provider),
                                "entry", FALSE)
             \* or a LocalBrowserProvider inside the body of its get_page:
             \* the browser is in active_sessions under the id of the page
             \/ /\ via = "provider" /\ provider_type = "local"
                /\ persist = start("local", "in_page", TRUE)

\* provider.create_session(), or BrowserManager.create_persistent_session,
\* which creates a provider and calls its create_session
CreateSession ==
  /\ persist.kind = "persistent" /\ persist.pc = "entry"
  /\ \E lf \in LocalFailures : \E tf \in {"none"} \cup LocalCloseErrors :
     \E bf \in BrowserbaseFailures(persist.api_key)
                 \cap {"none", "constructor", "session_create"} :
       LET r == CASE persist.selected = "local" -> local_create_session(lf, tf, persist.ws_endpoint)
                  [] persist.selected = "browserbase" -> browserbase_create_session(bf)
                  [] OTHER -> CreateRaised("ValueError")
       IN persist' = [persist EXCEPT !.pc = r.pc, !.error = r.error,
                                     !.open = r.open,
                                     !.registered = r.registered,
                                     !.open_at_return = r.open,
                                     !.registered_at_return = r.registered]
  /\ UNCHANGED <<mainVars, loop, chain, bm, exch, mgr, otp, check, store, variants>>

\* provider.close_session(id) on the provider that created the session, or
\* BrowserManager.close_persistent_session(id), which creates a provider and
\* calls its close_session: the active_sessions of the new instance is empty.
\* The call runs up to its await; calls on one id can overlap
CloseSession ==
  /\ persist.kind = "persistent" /\ persist.pc \in {"created", "in_page", "page_left"}
  /\ Len(persist.calls) < MaxCloses
  /\ persist' = close_session_enter(persist,
                                     persist.via = "provider" /\ persist.registered)
  /\ UNCHANGED <<mainVars, loop, chain, bm, exch, mgr, otp, check, store, variants>>

\* the remote service, or the browser, answers the close call of a
\* close_session
CloseCallEnds ==
  /\ persist.kind = "persistent"
  /\ \E i \in DOMAIN persist.calls : \E close_ok \in BOOLEAN :
       /\ persist.calls[i].pc = "closing"
       /\ persist' = close_call_ends(persist, i, close_ok)
  /\ UNCHANGED <<mainVars, loop, chain, bm, exch, mgr, otp, check, store, variants>>

\* the event loop resumes a close_session whose close call has ended
CloseSessionReturns ==
  /\ persist.kind = "persistent"
  /\ \E i \in DOMAIN persist.calls :
       /\ persist.calls[i].pc = "closed"
       /\ persist' = close_session_return(persist, i)
  /\ UNCHANGED <<mainVars, loop, chain, bm, exch, mgr, otp, check, store, variants>>

\* the body of the LocalBrowserProvider's get_page ends and its finally
\* starts
GetPageBodyEnds ==
  /\ persist.kind = "persistent" /\ persist.pc = "in_page"
  /\ persist.finally = "none"
  /\ persist' = finally_enter(persist)
  /\ UNCHANGED <<mainVars, loop, chain, bm, exch, mgr, otp, check, store, variants>>

\* the context, or the browser, answers the close call of the finally
FinallyCallEnds ==
  /\ persist.kind = "persistent" /\ persist.pc = "in_page"
  /\ persist.finally # "none" /\ persist.answered = "no"
  /\ \E close_ok \in BOOLEAN : persist' = finally_call_ends(persist, close_ok)
  /\ UNCHANGED <<mainVars, loop, chain, bm, exch, mgr, otp, check, store, variants>>

\* the event loop resumes the finally: it goes on to its next await, or
\* get_page ends
GetPageEnds ==
  /\ persist.kind = "persistent" /\ persist.pc = "in_page"
  /\ persist.finally # "none" /\ persist.answered # "no"
  /\ persist' = finally_resume(persist)
  /\ UNCHANGED <<mainVars, loop, chain, bm, exch, mgr, otp, check, store, variants>>

PersistNext ==
  CreateSession \/ CloseSession \/ CloseCallEnds \/ CloseSessionReturns
    \/ GetPageBodyEnds \/ FinallyCallEnds \/ GetPageEnds

PersistSpec == PersistInit /\ [][PersistNext]_vars

\* C35: a session id returned by create_session, or by
\* create_persistent_session, denotes a session that is open and registered
\* in active_sessions; the next close with that id closes it and returns
\* true (unless the close call itself fails), and a second close with the
\* same id returns false.
C35_ReturnedSessionIsOpen ==
  (persist.kind = "persistent" /\ persist.pc = "created") =>
    LET Returned(i) == Len(persist.calls) >= i /\ persist.calls[i].pc = "returned" IN
      /\ persist.open_at_return /\ persist.registered_at_return
      /\ Returned(1) => (persist.calls[1].result \/ persist.calls[1].failed)
      /\ (Returned(1) /\ persist.calls[1].result /\ Returned(2)) =>
           (~persist.calls[2].result /\ ~persist.open)

----------------------------------------------------------------------------
(* The session storage: a StorageAdapter with its in-memory cache, on top
   of MockSessionStorage or DynamoDBSessionStorage *)

\* settings.session_timeout_minutes, in ticks of the clock
SessionTimeout == 2

\* the ticks of the clock of the storage
MaxStoreClock == 2

\* values of settings.storage_type (STORAGE_TYPE) that give a StorageAdapter
StorageTypes == {"mock", "dynamodb", "DynamoDB"}

\* StorageFactory.create_storage, the backend of the StorageAdapter: the
\* type is lowered before it is compared (factory.py:42-52)
create_storage(storage_type) ==
  IF storage_type \in {"dynamodb", "DynamoDB"} THEN "DynamoDBSessionStorage"
  ELSE "MockSessionStorage"

\* BrowserManager.__init__: settings.storage_type is compared as it is
\* (manager.py:23-26)
manager_session_storage(storage_type) ==
  IF storage_type = "dynamodb" THEN "DynamoDBSessionStorage"
  ELSE "MockSessionStorage"
SessionIds == {1, 2}
CookieSets == {"c1", "c2"}

\* an item of the backing store; metadata: it carries the metadata
\* save_session writes (user_email, created_at, ...), else {}
NoItem == [present |-> FALSE, cookies |-> "", metadata |-> FALSE, last_accessed |-> 0]
NoSession == "None"

\* can a call to the backing store fail: put_item, get_item and delete_item
\* raise ClientError; the dictionary of the mock does not
BackendOutcomes(backend) ==
  IF backend = "DynamoDBSessionStorage" THEN BOOLEAN ELSE {TRUE}

\* store_session of the backend: the item is written with `metadata or {}`
\* and last_accessed now; a failed write is logged and answered with False
store_session(st, id, cks, metadata, ok) ==
  IF ok THEN [st EXCEPT !.backing[id] = [present |-> TRUE, cookies |-> cks,
                                         metadata |-> metadata,
                                         last_accessed |-> st.now]]
  ELSE st

\* get_session of the backend: the item, with last_accessed set to now
\* before it is returned (and written back, for DynamoDB)
backend_get_session(st, id, ok) ==
  IF ok /\ st.backing[id].present
  THEN [st EXCEPT !.backing[id].last_accessed = st.now]
  ELSE st

\* StorageAdapter.save_session: the result of store_session is not looked
\* at; the session is put into self._sessions
save_session(st, id, cks, ok) ==
  [store_session(st, id, cks, TRUE, ok) EXCEPT !.cache[id] = cks,
                                                    !.deleted = @ \ {id}]

\* BrowserManager.store_session_cookies: store_session on the manager's own
\* session_storage.  Its DynamoDBSessionStorage is the table the adapter
\* reads (settings.dynamodb_table_name); its MockSessionStorage is a
\* dictionary of its own (manager_held: the ids it holds).  The adapter's
\* cache is not touched
store_session_cookies(st, id, cks, metadata, ok) ==
  IF st.manager_backend = "MockSessionStorage"
  THEN [st EXCEPT !.manager_held = @ \cup {id}]
  ELSE IF ok
  THEN [store_session(st, id, cks, metadata, ok) EXCEPT !.deleted = @ \ {id}]
  ELSE st

\* StorageAdapter.get_session: the cached session, else the stored one,
\* which is then cached; the state after the call and what it returns.  An
\* item without the metadata of save_session raises KeyError in the
\* conversion (session_data['metadata']['user_email']): None is returned
get_session(st, id, ok) ==
  IF st.cache[id] # NoSession
  THEN [st |-> st, result |-> st.cache[id]]
  ELSE IF ok /\ st.backing[id].present
  THEN IF st.backing[id].metadata
       THEN [st |-> [backend_get_session(st, id, ok) EXCEPT
                       !.cache[id] = st.backing[id].cookies],
             result |-> st.backing[id].cookies]
       ELSE [st |-> backend_get_session(st, id, ok), result |-> NoSession]
  ELSE [st |-> st, result |-> NoSession]

\* what the last call was and what it returned
Called(st, op, id, result) ==
  [st EXCEPT !.last = [op |-> op, id |-> id, result |-> result,
                       existed |-> st.backing[id].present,
                       elapsed |-> st.now - st.backing[id].last_accessed]]

StoreInit ==
  /\ MainIdle
  /\ loop = Idle /\ chain = Idle /\ bm = Idle /\ exch = Idle
  /\ mgr = Idle /\ otp = Idle /\ check = Idle /\ persist = Idle /\ variants = Idle
  /\ \E storage_type \in StorageTypes :
       store = [kind |-> "storage", backend |-> create_storage(storage_type),
                manager_backend |-> manager_session_storage(storage_type),
                manager_held |-> {}, now |-> 0,
                cache |-> [i \in SessionIds |-> NoSession],
                backing |-> [i \in SessionIds |-> NoItem],
                deleted |-> {},
                last |-> [op |-> "none", id |-> 1, result |-> NoSession,
                          existed |-> FALSE, elapsed |-> 0]]

StoreStep(st) ==
  /\ store' = st
  /\ UNCHANGED <<mainVars, loop, chain, bm, exch, mgr, otp, check, persist, variants>>

\* time passes
StoreClockTick ==
  /\ store.kind = "storage" /\ store.now < MaxStoreClock
  /\ StoreStep([store EXCEPT !.now = @ + 1])

SaveSession ==
  /\ store.kind = "storage"
  /\ \E id \in SessionIds : \E cks \in CookieSets :
     \E ok \in BackendOutcomes(store.backend) :
       StoreStep(save_session(Called(store, "save_session", id, NoSession),
                              id, cks, ok))

\* BrowserManager.store_session_cookies(session_id, provider, cookies,
\* metadata) on a manager of the same process
StoreSessionCookies ==
  /\ store.kind = "storage"
  /\ \E id \in SessionIds : \E cks \in CookieSets : \E metadata \in BOOLEAN :
     \E ok \in BackendOutcomes(store.manager_backend) :
       StoreStep(store_session_cookies(
                   Called(store, "store_session_cookies", id,
                          IF ok THEN "True" ELSE "False"),
                   id, cks, metadata, ok))

GetSession ==
  /\ store.kind = "storage"
  /\ \E id \in SessionIds : \E ok \in BackendOutcomes(store.backend) :
       LET g == get_session(store, id, ok) IN
         StoreStep([Called(store, "get_session", id, g.result) EXCEPT
                      !.cache = g.st.cache, !.backing = g.st.backing])

\* StorageAdapter.update_session: get_session, setattr on the session it
\* returned (the object the cache holds), then save_session
UpdateSession ==
  /\ store.kind = "storage"
  /\ \E id \in SessionIds : \E cks \in CookieSets :
     \E read_ok \in BackendOutcomes(store.backend) :
     \E write_ok \in BackendOutcomes(store.backend) :
       LET g == get_session(store, id, read_ok) IN
         StoreStep(
           IF g.result = NoSession
           THEN Called(g.st, "update_session", id, "False")
           ELSE save_session(Called(g.st, "update_session", id, "True"),
                             id, cks, write_ok))

\* StorageAdapter.delete_session: the cache entry goes, then delete_session
\* of the backend
DeleteSession ==
  /\ store.kind = "storage"
  /\ \E id \in SessionIds : \E ok \in BackendOutcomes(store.backend) :
       LET st == Called(store, "delete_session", id,
                        IF ok /\ (store.backend = "DynamoDBSessionStorage"
                                  \/ store.backing[id].present)
                        THEN "True" ELSE "False") IN
         StoreStep([st EXCEPT !.cache[id] = NoSession,
                              !.deleted = @ \cup {id},
                              !.backing[id] = IF ok THEN NoItem ELSE @])

\* is_session_valid of the backend: get_session, then the age of the
\* last_accessed of what it returned
IsSessionValid ==
  /\ store.kind = "storage"
  /\ \E id \in SessionIds : \E ok \in BackendOutcomes(store.backend) :
       LET st == backend_get_session(store, id, ok)
           valid == /\ ok /\ st.backing[id].present
                    /\ st.now - st.backing[id].last_accessed < SessionTimeout IN
         StoreStep([Called(store, "is_session_valid", id,
                           IF valid THEN "True" ELSE "False") EXCEPT
                      !.backing = st.backing])

StoreNext ==
  \/ StoreClockTick
  \/ SaveSession
  \/ StoreSessionCookies
  \/ GetSession
  \/ UpdateSession
  \/ DeleteSession
  \/ IsSessionValid

StoreSpec == StoreInit /\ [][StoreNext]_vars

\* C36: is_session_valid(id) returns true if and only if the session exists
\* and the time elapsed since its last access before the call is less than
\* the session timeout; it returns false for a stored session whose last
\* access is older than the timeout.
C36_ValidIffRecentlyAccessed ==
  (store.kind = "storage" /\ store.last.op = "is_session_valid") =>
    /\ store.last.result = "True" =>
         (store.last.existed /\ store.last.elapsed < SessionTimeout)
    /\ (store.last.existed /\ store.last.elapsed >= SessionTimeout) =>
         store.last.result = "False"

\* C37: after any sequence of save_session, get_session, update_session and
\* delete_session on a StorageAdapter, a session that get_session returns is
\* in the backing store with the same cookies, also after a failed write,
\* and after delete_session(id) get_session(id) returns nothing.
C37_CacheAgreesWithStore ==
  (store.kind = "storage" /\ store.last.op = "get_session") =>
    /\ store.last.result # NoSession =>
         /\ store.backing[store.last.id].present
         /\ store.backing[store.last.id].cookies = store.last.result
    /\ store.last.id \in store.deleted => store.last.result = NoSession

----------------------------------------------------------------------------
(* The authenticate variants side by side: one request, one behaviour of the
   page and of the hooks, each variant's authenticate applied to it *)

\* a subclass of each base class that has an authenticate of its own
ComparedClasses == <<"CustomAuth", "CustomOAuth2", "CustomPassword", "CustomHybrid">>

\* what the hooks do on the page: the value oauth2_login returns or that it
\* raises, whether login raises, the answers of handle_captcha, handle_2fa
\* and is_success, the number of cookies extract_cookies returns, the value
\* of extract_oauth_tokens
HookBehaviours ==
  [oauth2_raises : BOOLEAN, oauth2_login : TokenValues, login_raises : BOOLEAN,
   handle_captcha : BOOLEAN, handle_2fa : BOOLEAN, is_success : BOOLEAN,
   cookies : 0..MaxCookies, extract_oauth_tokens : TokenValues]

\* authenticate from login on: the password path
PasswordPath(s, b) ==
  IF b.login_raises THEN ExceptResult(Variant(s), "TimeoutError")
  ELSE IF ~b.handle_captcha THEN FailureResult(<<"CAPTCHA could not be solved">>)
  ELSE IF ~b.handle_2fa THEN FailureResult(<<"2FA could not be completed">>)
  ELSE IF ~b.is_success
  THEN FailureResult(<<"Login failed - invalid credentials or other error">>)
  ELSE LET cs == CookieList(b.cookies)
           a == AfterExtract(s, cs) IN
    IF a = "fail" THEN FailureResult(<<"No valid session cookies found">>)
    ELSE Result(TRUE, cs, SuccessMessage(Variant(s)),
                IF a = "extract_oauth_tokens" THEN b.extract_oauth_tokens
                ELSE NoTokens)

\* authenticate of the class of s on request r and behaviour b
authenticate(s, r, b) ==
  LET f == FirstStep(s, r) IN
    IF f = "missing_fields"
    THEN FailureResult(<<"Missing required OAuth2 fields: ">> \o MissingFields(r))
    ELSE IF f = "value_error"
    THEN ExceptResult(Variant(s), "is not a valid AuthMethod")
    ELSE IF f = "oauth2_login"
    THEN IF b.oauth2_raises THEN ExceptResult(Variant(s), "TimeoutError")
         ELSE LET a == AfterOAuth2(s, r, b.oauth2_login) IN
           IF a = "success"
           THEN Result(TRUE, <<>>, OAuth2SuccessMessage(s, r), b.oauth2_login)
           ELSE IF a = "fail" THEN FailureResult(OAuth2FailureMessage(s))
           ELSE PasswordPath(s, b)
    ELSE PasswordPath(s, b)

VariantsInit ==
  /\ MainIdle
  /\ loop = Idle /\ chain = Idle /\ bm = Idle /\ exch = Idle
  /\ mgr = Idle /\ otp = Idle /\ check = Idle /\ persist = Idle /\ store = Idle
  /\ \E r \in LoginRequest : \E b \in HookBehaviours :
       /\ r.auth_mode \in {"password", "oauth2"}
       /\ r.password /\ ~r.otp_code
       /\ variants = [kind |-> "authenticate", req |-> r, behaviour |-> b,
                      results |-> <<>>]

\* the next class authenticates
VariantAuthenticates ==
  /\ variants.kind = "authenticate"
  /\ Len(variants.results) < Len(ComparedClasses)
  /\ variants' = [variants EXCEPT !.results =
       Append(@, authenticate(ComparedClasses[Len(variants.results) + 1],
                              variants.req, variants.behaviour))]
  /\ UNCHANGED <<mainVars, loop, chain, bm, exch, mgr, otp, check, persist, store>>

VariantsNext == VariantAuthenticates

VariantsSpec == VariantsInit /\ [][VariantsNext]_vars

\* the results of two of the compared classes have the same success flag,
\* cookies and tokens
SameOutcome(i, j) ==
  /\ variants.results[i].success = variants.results[j].success
  /\ variants.results[i].cookies = variants.results[j].cookies
  /\ variants.results[i].tokens = variants.results[j].tokens

\* C38: the authenticate variants agree on every mode they share: for the
\* same request and the same page behaviour AuthStrategy,
\* PasswordBaseStrategy and HybridBaseStrategy return the same success
\* flag, cookies and tokens in password mode, and AuthStrategy,
\* OAuth2BaseStrategy and HybridBaseStrategy the same success flag and
\* tokens in oauth2 mode.
C38_VariantsAgree ==
  (variants.kind = "authenticate"
   /\ Len(variants.results) = Len(ComparedClasses)) =>
    /\ variants.req.auth_mode = "password" => (SameOutcome(1, 3) /\ SameOutcome(1, 4))
    /\ variants.req.auth_mode = "oauth2" => (SameOutcome(1, 2) /\ SameOutcome(1, 4))


====
